---- MODULE Spec2Model ----
(***************************************************************************)
(* Block-sparse, charge-conserving arrays of tenpy/linalg/np_conserved.py. *)
(*                                                                         *)
(* An Array is a record                                                    *)
(*   chinfo  the modulus of the (single-component) charge, 0 = unbounded   *)
(*   legs    sequence of legs; a leg is [qconj, ch, sz, sub, qmap]: sign,  *)
(*           the charge and the size of each sector, and for a LegPipe     *)
(*           the member legs sub and the table qmap (both << >> for a      *)
(*           plain LegCharge)                                              *)
(*   qtotal  the total charge                                              *)
(*   labels  per axis a label, a sequence of characters (<< >> is None)    *)
(*   qdata   the rows of _qdata (sector ids counted from 0, as in python)  *)
(*   data    the blocks of _data; a block maps offset tuples to entries    *)
(*   sorted  the flag _qdata_sorted                                        *)
(* Axes, sector ids and flat indices are counted from 0 as in the source;  *)
(* position k of a python list is position k+1 of the TLA+ sequence.       *)
(***************************************************************************)
EXTENDS Integers, Sequences, FiniteSets, TLC

VARIABLES a, b, c, res, res2, op, arg, steps

vars == <<a, b, c, res, res2, op, arg, steps>>

\* ------------------------------------------------------------------ bounds
MaxSteps == 2
\* the nested calls of combine_legs the model follows before python's
\* recursion limit is taken as reached
RecursionLimit == 6
\* combine_legs is called with at most MaxGroups groups of at most MaxGroupLen axes
MaxGroups == 2
MaxGroupLen == 2

\* ----------------------------------------------------------------- helpers
Max(S) == CHOOSE x \in S : \A y \in S : y <= x
Min(S) == CHOOSE x \in S : \A y \in S : x <= y

RECURSIVE SumTo(_, _)
SumTo(s, n) == IF n = 0 THEN 0 ELSE s[n] + SumTo(s, n - 1)

RECURSIVE ProdTo(_, _)
ProdTo(s, n) == IF n = 0 THEN 1 ELSE s[n] * ProdTo(s, n - 1)

RECURSIVE SumOver(_, _)
SumOver(f, S) ==
    IF S = {} THEN 0
    ELSE LET x == CHOOSE y \in S : TRUE IN f[x] + SumOver(f, S \ {x})

RECURSIVE Concat(_)
Concat(ss) == IF ss = << >> THEN << >> ELSE Head(ss) \o Concat(Tail(ss))

\* all tuples t with 0 <= t[k] < ns[k]
Tuples(ns) ==
    IF Len(ns) = 0 THEN {<< >>}
    ELSE {t \in [1..Len(ns) -> 0..(Max({ns[k] : k \in 1..Len(ns)}) - 1)] :
             \A k \in 1..Len(ns) : t[k] < ns[k]}

\* position (from 1) of x in s, 0 when absent
IndexOf(s, x) ==
    IF \E i \in 1..Len(s) : s[i] = x
    THEN Min({i \in 1..Len(s) : s[i] = x}) ELSE 0

\* the subsequence of s at the positions listed in ps
Pick(s, ps) == [i \in 1..Len(ps) |-> s[ps[i]]]

\* x itself: the comparison has TLC compute x once, not at every use
Force(x) == IF x = x THEN x ELSE x

\* ---------------------------------------------------------- charges and legs
\* ChargeInfo.make_valid
MakeValid(mod, q) == IF mod = 0 THEN q ELSE q % mod

BlockNumber(l) == Len(l.ch)
IndLen(l) == SumTo(l.sz, Len(l.sz))
\* qind[qi, 0] and qind[qi, 1]
SliceBeg(l, qi) == SumTo(l.sz, qi)
SliceEnd(l, qi) == SumTo(l.sz, qi + 1)
GetCharge(l, qi) == l.qconj * l.ch[qi + 1]
GetQindex(l, i) ==
    LET qi == CHOOSE q \in 0..(BlockNumber(l) - 1) : SliceBeg(l, q) <= i /\ i < SliceEnd(l, q)
    IN  <<qi, i - SliceBeg(l, qi)>>
IsPipe(l) == Len(l.sub) > 0

RECURSIVE LegConj(_)
LegConj(l) ==
    [qconj |-> 0 - l.qconj, ch |-> l.ch, sz |-> l.sz,
     sub |-> [k \in 1..Len(l.sub) |-> LegConj(l.sub[k])], qmap |-> l.qmap]

\* LegCharge.test_contractible / test_equal: TRUE when the test passes
Contractible(l1, l2) == l1.qconj = 0 - l2.qconj /\ l1.ch = l2.ch /\ l1.sz = l2.sz
LegEqual(l1, l2) == l1.qconj = l2.qconj /\ l1.ch = l2.ch /\ l1.sz = l2.sz

PlainLeg(qconj, ch, sz) ==
    [qconj |-> qconj, ch |-> ch, sz |-> sz, sub |-> << >>, qmap |-> << >>]

\* ------------------------------------------------------------- row ordering
\* np.lexsort(qdata.T): the last column is the primary key
LexLess(r1, r2) ==
    \E k \in 1..Len(r1) : r1[k] < r2[k] /\ \A j \in (k + 1)..Len(r1) : r1[j] = r2[j]

LexRank(rows, j) ==
    1 + Cardinality({k \in 1..Len(rows) :
            LexLess(rows[k], rows[j]) \/ (rows[k] = rows[j] /\ k < j)})

\* the (stable) sorting permutation: position i of the result holds rows[perm[i]]
LexSortPerm(rows) ==
    [i \in 1..Len(rows) |-> CHOOSE j \in 1..Len(rows) : LexRank(rows, j) = i]

\* what test_sanity checks for _qdata_sorted
IsLexSorted(rows) == \A i \in 1..Len(rows) : LexSortPerm(rows)[i] = i
StrictlyAscending(rows) == \A i \in 1..(Len(rows) - 1) : LexLess(rows[i], rows[i + 1])

\* charges._find_row_differences: the positions (from 0) where a new run of
\* equal rows starts, with the number of rows as last entry
RowDiffs(rows) ==
    LET starts == {i \in 1..Len(rows) : i = 1 \/ rows[i] # rows[i - 1]}
        n == Cardinality(starts)
        srt == [i \in 1..n |-> CHOOSE s \in starts : Cardinality({t \in starts : t < s}) = i - 1]
    IN  [i \in 1..(n + 1) |-> IF i <= n THEN srt[i] - 1 ELSE Len(rows)]

\* ------------------------------------------------------------------- Array
Rank(A) == Len(A.legs)
Shape(A) == [k \in 1..Len(A.legs) |-> IndLen(A.legs[k])]
StoredBlocks(A) == Len(A.data)

NoLabels(n) == [k \in 1..n |-> << >>]

\* Array.__init__: no blocks, qtotal made valid
NewArray(mod, legs, qtotal) ==
    [chinfo |-> mod, legs |-> legs, qtotal |-> MakeValid(mod, qtotal),
     labels |-> NoLabels(Len(legs)), qdata |-> << >>, data |-> << >>, sorted |-> TRUE]

\* Array._iter_all_blocks: every sector row, the first leg changing fastest
IterAllBlocks(legs) ==
    LET S == Tuples([k \in 1..Len(legs) |-> BlockNumber(legs[k])])
        n == Cardinality(S)
    IN  [i \in 1..n |-> CHOOSE r \in S : Cardinality({t \in S : LexLess(t, r)}) = i - 1]

\* Array._get_block_charge
GetBlockCharge(mod, legs, row) ==
    MakeValid(mod, SumTo([k \in 1..Len(legs) |-> GetCharge(legs[k], row[k])], Len(legs)))

\* Array._get_block_shape
GetBlockShape(legs, row) == [k \in 1..Len(legs) |-> legs[k].sz[row[k] + 1]]

BlockIndices(legs, row) == Tuples(GetBlockShape(legs, row))
ZeroBlock(legs, row) == [t \in BlockIndices(legs, row) |-> 0]

\* the flat index tuple of offset tuple t of the block at row
FlatOf(legs, row, t) == [k \in 1..Len(legs) |-> SliceBeg(legs[k], row[k]) + t[k]]
RowOf(legs, idx) == [k \in 1..Len(legs) |-> GetQindex(legs[k], idx[k])[1]]
OffsetOf(legs, idx) == [k \in 1..Len(legs) |-> GetQindex(legs[k], idx[k])[2]]

DenseIndices(legs) == Tuples([k \in 1..Len(legs) |-> IndLen(legs[k])])

\* Array.to_ndarray: start from zeros and write the blocks in storage order
ToNdarray(A) ==
    [idx \in DenseIndices(A.legs) |->
        LET n  == Min({Len(A.data), Len(A.qdata)})
            ks == {k \in 1..n : A.qdata[k] = RowOf(A.legs, idx)}
        IN  IF ks = {} THEN 0 ELSE A.data[Max(ks)][OffsetOf(A.legs, idx)]]

\* Array.from_ndarray with an explicit qtotal: the blocks whose charge equals
\* the qtotal argument as given; the Array's own qtotal is made valid
FromNdarray(dense, mod, legs, qtotal) ==
    LET all  == IterAllBlocks(legs)
        rows == SelectSeq(all, LAMBDA r : GetBlockCharge(mod, legs, r) = qtotal)
    IN  [NewArray(mod, legs, qtotal) EXCEPT
            !.qdata = rows,
            !.data = [k \in 1..Len(rows) |->
                        [t \in BlockIndices(legs, rows[k]) |-> dense[FlatOf(legs, rows[k], t)]]],
            !.sorted = TRUE]

\* ---------------------------------------------------------------- labels
\* Array._conj_leg_label: a '*' after every name, then every '**' removed
RECURSIVE InsertStars(_, _)
InsertStars(s, p) ==
    IF p > Len(s) THEN (IF s[Len(s)] # ")" THEN <<"*">> ELSE << >>)
    ELSE (IF p > 1 /\ s[p - 1] # ")" /\ s[p] \in {".", ")"} THEN <<"*">> ELSE << >>)
         \o <<s[p]>> \o InsertStars(s, p + 1)

RECURSIVE RemoveDoubleStars(_)
RemoveDoubleStars(s) ==
    IF Len(s) < 2 THEN s
    ELSE IF s[1] = "*" /\ s[2] = "*" THEN RemoveDoubleStars(SubSeq(s, 3, Len(s)))
    ELSE <<s[1]>> \o RemoveDoubleStars(Tail(s))

\* _conj_leg_label without its last line: the '**' are left in the label
StarLegLabel(s) == InsertStars(s, 1)

ConjLegLabel(s) == RemoveDoubleStars(InsertStars(s, 1))

\* ------------------------------------------------------- unary operations
\* the outcome of an operation: err = "" and the value, or the exception raised
Ok(A) == [err |-> "", val |-> A]
Raise(e, A) == [err |-> e, val |-> A]

\* Array.conj for a real dtype (inplace or on a deep copy: the same value)
Conj(A) ==
    [A EXCEPT !.qtotal = 0 - A.qtotal,
              !.legs = [k \in 1..Len(A.legs) |-> LegConj(A.legs[k])],
              !.labels = [k \in 1..Len(A.labels) |->
                            IF A.labels[k] = << >> THEN << >> ELSE ConjLegLabel(A.labels[k])]]

IsZeroBlock(blk) == \A t \in DOMAIN blk : blk[t] = 0

\* Array.ipurge_zeros (entries are integers: norm > cutoff iff some entry # 0)
IPurgeZeros(A) ==
    IF Len(A.data) = 0 THEN A
    ELSE LET keep == {k \in 1..Len(A.data) : ~IsZeroBlock(A.data[k])}
             n == Cardinality(keep)
             ks == [i \in 1..n |-> CHOOSE k \in keep : Cardinality({j \in keep : j < k}) = i - 1]
         IN  [A EXCEPT !.data = Pick(A.data, ks), !.qdata = Pick(A.qdata, ks)]

\* np.transpose(block, axes): axis k of the result is axis axes[k] of block
TransposeBlock(blk, axes) ==
    LET n == Len(axes)
        inv == [j \in 1..n |-> CHOOSE k \in 1..n : axes[k] + 1 = j]
        dom == {[k \in 1..n |-> s[axes[k] + 1]] : s \in DOMAIN blk}
    IN  [t \in dom |-> blk[[j \in 1..n |-> t[inv[j]]]]]

IsPermutation(axes, n) ==
    Len(axes) = n /\ {axes[k] : k \in 1..Len(axes)} = 0..(n - 1)
Identity(n) == [k \in 1..n |-> k - 1]

\* Array.itranspose / Array.transpose with an explicit list of axes
Transpose(A, axes) ==
    IF axes = Identity(Rank(A)) THEN A
    ELSE [A EXCEPT !.legs = [k \in 1..Len(axes) |-> A.legs[axes[k] + 1]],
                   !.labels = [k \in 1..Len(axes) |-> A.labels[axes[k] + 1]],
                   !.qdata = [i \in 1..Len(A.qdata) |->
                                [k \in 1..Len(axes) |-> A.qdata[i][axes[k] + 1]]],
                   !.sorted = FALSE,
                   !.data = [i \in 1..Len(A.data) |-> TransposeBlock(A.data[i], axes)]]

\* Array.gauge_total_charge
GaugeTotalCharge(A, leg, newq) ==
    LET newqtotal == MakeValid(A.chinfo, newq)
        chdiff == newqtotal - A.qtotal
        old == A.legs[leg + 1]
        newleg == [old EXCEPT !.ch = [i \in 1..Len(old.ch) |->
                                        MakeValid(A.chinfo, old.ch[i] + old.qconj * chdiff)]]
    IN  [A EXCEPT !.legs[leg + 1] = newleg, !.qtotal = newqtotal]

\* LegCharge.bunch: the old sectors (from 1) that start a run of equal charges
BunchStarts(l) == {i \in 1..Len(l.ch) : i = 1 \/ l.ch[i] # l.ch[i - 1]}
BunchIdx(l) ==
    LET S == BunchStarts(l)
    IN  [i \in 1..Cardinality(S) |->
            (CHOOSE s \in S : Cardinality({t \in S : t < s}) = i - 1) - 1]
BunchLeg(l) ==
    LET idx == BunchIdx(l)
        n == Len(idx)
        end(i) == IF i < n THEN idx[i + 1] ELSE Len(l.ch)
    IN  [qconj |-> l.qconj,
         ch |-> [i \in 1..n |-> l.ch[idx[i] + 1]],
         sz |-> [i \in 1..n |-> SumTo(l.sz, end(i)) - SumTo(l.sz, idx[i])],
         sub |-> << >>, qmap |-> << >>]

\* Array._bunch: every leg is bunched, whatever bunch_legs says; the blocks
\* that land on the same new row are merged
Bunch(A, bunch_legs) ==
    LET n == Rank(A)
        newlegs == [li \in 1..n |-> BunchLeg(A.legs[li])]
        \* idx with self.shape[li] appended
        idx(li) == BunchIdx(A.legs[li]) \o <<IndLen(A.legs[li])>>
        mapq(li, qi) == Max({i \in 1..(Len(idx(li)) - 1) : idx(li)[i] <= qi}) - 1
        bq(li, inew) == idx(li)[inew + 2] - idx(li)[inew + 1] > 1
        m == Len(A.data)
        mrow == [k \in 1..m |-> [li \in 1..n |-> mapq(li, A.qdata[k][li])]]
        bun == [k \in 1..m |-> \E li \in 1..n : bq(li, mrow[k][li])]
        first == {k \in 1..m : ~bun[k] \/ ~\E j \in 1..(k - 1) : bun[j] /\ mrow[j] = mrow[k]}
        cnt == Cardinality(first)
        ks == [i \in 1..cnt |-> CHOOSE k \in first : Cardinality({j \in first : j < k}) = i - 1]
        slbeg(k) == [li \in 1..n |-> SliceBeg(A.legs[li], A.qdata[k][li])
                                      - SliceBeg(newlegs[li], mrow[k][li])]
        inside(k, t) == \A li \in 1..n :
                            /\ slbeg(k)[li] <= t[li]
                            /\ t[li] < slbeg(k)[li] + A.legs[li].sz[A.qdata[k][li] + 1]
        merged(k) ==
            [t \in BlockIndices(newlegs, mrow[k]) |->
                LET js == {j \in k..m : bun[j] /\ mrow[j] = mrow[k] /\ inside(j, t)}
                IN  IF js = {} THEN 0
                    ELSE A.data[Max(js)][[li \in 1..n |-> t[li] - slbeg(Max(js))[li]]]]
    IN  [A EXCEPT !.legs = newlegs,
                  !.qdata = [i \in 1..cnt |-> mrow[ks[i]]],
                  !.data = [i \in 1..cnt |-> IF bun[ks[i]] THEN merged(ks[i]) ELSE A.data[ks[i]]]]

\* Array.sort_legcharge(sort=False, bunch=flags): the Array it returns
SortLegcharge(A, bunch) ==
    IF \E li \in 1..Len(bunch) : bunch[li] THEN Bunch(A, bunch) ELSE A

\* Array.take_slice for a list of indices on a list of distinct axes
TakeSlice(A, indices, axes) ==
    IF Len(axes) = 0 THEN A
    ELSE
    LET n == Rank(A)
        pos == [i \in 1..Len(axes) |-> GetQindex(A.legs[axes[i] + 1], indices[i])]
        keepS == {k \in 0..(n - 1) : \A i \in 1..Len(axes) : axes[i] # k}
        keep == [i \in 1..Cardinality(keepS) |->
                    CHOOSE k \in keepS : Cardinality({j \in keepS : j < k}) = i - 1]
        q == MakeValid(A.chinfo,
                A.qtotal - SumTo([i \in 1..Len(axes) |->
                                    GetCharge(A.legs[axes[i] + 1], pos[i][1])], Len(axes)))
        kb == {k \in 1..Len(A.qdata) :
                  \A i \in 1..Len(axes) : A.qdata[k][axes[i] + 1] = pos[i][1]}
        ks == [i \in 1..Cardinality(kb) |->
                  CHOOSE k \in kb : Cardinality({j \in kb : j < k}) = i - 1]
        full(t) == [j \in 1..n |->
                      IF \E i \in 1..Len(axes) : axes[i] + 1 = j
                      THEN pos[CHOOSE i \in 1..Len(axes) : axes[i] + 1 = j][2]
                      ELSE t[CHOOSE i \in 1..Len(keep) : keep[i] + 1 = j]]
        newlegs == [i \in 1..Len(keep) |-> A.legs[keep[i] + 1]]
        newq == [i \in 1..Len(ks) |-> [j \in 1..Len(keep) |-> A.qdata[ks[i]][keep[j] + 1]]]
    IN  [A EXCEPT !.legs = newlegs,
                  !.labels = [i \in 1..Len(keep) |-> A.labels[keep[i] + 1]],
                  !.qtotal = q,
                  !.qdata = newq,
                  !.data = [i \in 1..Len(ks) |->
                              [t \in BlockIndices(newlegs, newq[i]) |-> A.data[ks[i]][full(t)]]]]

\* Array._get_block(insert=True, raise_incomp_q=True) followed by the write of
\* Array.__setitem__ for a full integer index
\* self[idx] for a full integer index: 0 for a block that is not stored
GetItem(A, idx) ==
    LET row == RowOf(A.legs, idx)
        match == {k \in 1..Len(A.qdata) : A.qdata[k] = row}
    IN  IF GetBlockCharge(A.chinfo, A.legs, row) # A.qtotal \/ match = {} THEN 0
        ELSE A.data[Min(match)][OffsetOf(A.legs, idx)]

\* __setitem__ with _get_block called without raise_incomp_q: the write goes
\* into a new block whatever the charge of its row
SetItemUnchecked(A, idx, v) ==
    LET row == RowOf(A.legs, idx)
        off == OffsetOf(A.legs, idx)
        match == {k \in 1..Len(A.qdata) : A.qdata[k] = row}
    IN  IF match = {}
        THEN [err |-> "",
              val |-> [A EXCEPT !.data = Append(A.data, [ZeroBlock(A.legs, row) EXCEPT ![off] = v]),
                                !.qdata = Append(A.qdata, row),
                                !.sorted = FALSE]]
        ELSE [err |-> "", val |-> [A EXCEPT !.data[Min(match)][off] = v]]

SetItem(A, idx, v) ==
    LET row == RowOf(A.legs, idx)
        off == OffsetOf(A.legs, idx)
        match == {k \in 1..Len(A.qdata) : A.qdata[k] = row}
    IN  IF GetBlockCharge(A.chinfo, A.legs, row) # A.qtotal
        THEN Raise("IndexError", A)
        ELSE IF match = {}
        THEN Ok([A EXCEPT !.data = Append(A.data, [ZeroBlock(A.legs, row) EXCEPT ![off] = v]),
                          !.qdata = Append(A.qdata, row),
                          !.sorted = FALSE])
        ELSE Ok([A EXCEPT !.data[Min(match)][off] = v])


\* --------------------------------------------------------------- reshaping
\* numpy's C order: position of offset tuple t in a block of the given shape
RECURSIVE RavelTo(_, _, _)
RavelTo(shape, t, k) == IF k = 0 THEN 0 ELSE RavelTo(shape, t, k - 1) * shape[k] + t[k]
Ravel(shape, t) == RavelTo(shape, t, Len(shape))
RECURSIVE ProdFrom(_, _)
ProdFrom(shape, k) == IF k > Len(shape) THEN 1 ELSE shape[k] * ProdFrom(shape, k + 1)
Unravel(shape, f) == [k \in 1..Len(shape) |-> (f \div ProdFrom(shape, k + 1)) % shape[k]]

\* the elements of a set of integers in ascending order
SortedSeq(S) ==
    [i \in 1..Cardinality(S) |-> CHOOSE x \in S : Cardinality({y \in S : y < x}) = i - 1]

\* LegPipe(legs, qconj): the sectors of the member legs are enumerated in a
\* fixed order, the fused charge of a combination is the valid sum of the
\* member charges, equal fused charges form one sector of the pipe, and qmap
\* holds for every combination its range [b0, b1) in its sector I
MakePipe(mod, legs, qconj) ==
    LET combos == IterAllBlocks(legs)
        n == Len(combos)
        chOf == [i \in 1..n |->
                   MakeValid(mod, qconj * SumTo([k \in 1..Len(legs) |->
                                    GetCharge(legs[k], combos[i][k])], Len(legs)))]
        szOf == [i \in 1..n |-> ProdTo(GetBlockShape(legs, combos[i]), Len(legs))]
        ch == SortedSeq({chOf[i] : i \in 1..n})
        secOf == [i \in 1..n |-> IndexOf(ch, chOf[i]) - 1]
        b0 == [i \in 1..n |-> SumOver(szOf, {j \in 1..(i - 1) : chOf[j] = chOf[i]})]
        key == [i \in 1..n |-> secOf[i] * n + (i - 1)]
        order == [p \in 1..n |-> CHOOSE i \in 1..n :
                                    Cardinality({j \in 1..n : key[j] < key[i]}) = p - 1]
    IN  [qconj |-> qconj,
         ch |-> ch,
         sz |-> [I \in 1..Len(ch) |-> SumOver(szOf, {j \in 1..n : secOf[j] = I - 1})],
         sub |-> legs,
         qmap |-> [p \in 1..n |->
                    [b0 |-> b0[order[p]], b1 |-> b0[order[p]] + szOf[order[p]],
                     q |-> combos[order[p]], I |-> secOf[order[p]]]]]

\* LegPipe._map_incoming_qind: the row of qmap of a combination of member sectors
MapIncomingQind(pipe, combo) == CHOOSE p \in 1..Len(pipe.qmap) : pipe.qmap[p].q = combo

\* python's list.insert
Insert(s, pos, x) ==
    LET p == IF pos > Len(s) THEN Len(s) ELSE pos
    IN  SubSeq(s, 1, p) \o <<x>> \o SubSeq(s, p + 1, Len(s))

\* np.argsort of distinct integers: positions (from 1) in ascending order of value
ArgSort(s) ==
    [i \in 1..Len(s) |-> CHOOSE j \in 1..Len(s) :
        Cardinality({k \in 1..Len(s) : s[k] < s[j] \/ (s[k] = s[j] /\ k < j)}) = i - 1]

NonCombined(n, groups) ==
    SortedSeq({x \in 0..(n - 1) : \A g \in 1..Len(groups) : \A k \in 1..Len(groups[g]) : groups[g][k] # x})

\* Array._combine_legs_new_axes with new_axes=None: the default new_axes
DefaultNewAxes(n, groups) ==
    LET non == NonCombined(n, groups)
        first == [g \in 1..Len(groups) |-> groups[g][1]]
    IN  [g \in 1..Len(groups) |->
            Cardinality({i \in 1..Len(non) : non[i] < first[g]})
            + Cardinality({i \in 1..Len(first) : first[i] < first[g]})]

\* Array._combine_legs_new_axes: the transposition that makes the groups contiguous
RECURSIVE InsertGroups(_, _, _, _, _)
InsertGroups(transp, groups, new_axes, order, i) ==
    IF i > Len(order) THEN transp
    ELSE InsertGroups(Insert(transp, new_axes[order[i]], groups[order[i]]),
                      groups, new_axes, order, i + 1)
CombineTransp(n, groups, new_axes) ==
    LET non == NonCombined(n, groups)
    IN  Concat(InsertGroups([i \in 1..Len(non) |-> <<non[i]>>], groups, new_axes,
                            ArgSort(new_axes), 1))

\* Array.set_leg_labels keeps a dict label -> axis: of two equal labels the
\* later axis wins
SetLegLabels(labels) ==
    [i \in 1..Len(labels) |->
        IF \E j \in (i + 1)..Len(labels) : labels[j] = labels[i] THEN << >> ELSE labels[i]]

Digits == <<"0", "1", "2", "3", "4", "5", "6", "7", "8", "9">>
\* '?' + str(i) for an axis i < 10
Placeholder(i) == <<"?", Digits[i + 1]>>

RECURSIVE JoinDot(_)
JoinDot(ls) ==
    IF Len(ls) = 0 THEN << >>
    ELSE IF Len(ls) = 1 THEN ls[1]
    ELSE ls[1] \o <<".">> \o JoinDot(Tail(ls))
PipeLabel(ls) == <<"(">> \o JoinDot(ls) \o <<")">>

\* labels[na:na + nlegs] = [plab] for every pipe, in the order of new_axes
RECURSIVE ReplaceLabels(_, _, _, _, _)
ReplaceLabels(labels, new_axes, nlegs, plabs, i) ==
    IF i > Len(new_axes) THEN labels
    ELSE LET na == IF new_axes[i] > Len(labels) THEN Len(labels) ELSE new_axes[i]
             hi == IF na + nlegs[i] > Len(labels) THEN Len(labels) ELSE na + nlegs[i]
         IN  ReplaceLabels(SubSeq(labels, 1, na) \o <<plabs[i]>> \o SubSeq(labels, hi + 1, Len(labels)),
                           new_axes, nlegs, plabs, i + 1)

\* Array._combine_legs_worker: groups are contiguous ranges, new_axes ascending
CombineLegsWorker(A, groups, new_axes, pipes) ==
    LET n == Rank(A)
        non == NonCombined(n, groups)
        RECURSIVE ins(_, _)
        ins(ls, i) == IF i > Len(pipes) THEN ls ELSE ins(Insert(ls, new_axes[i], pipes[i]), i + 1)
        legs == ins([i \in 1..Len(non) |-> A.legs[non[i] + 1]], 1)
        m == Len(legs)
        nonnew == SortedSeq({x \in 0..(m - 1) : \A i \in 1..Len(new_axes) : new_axes[i] # x})
        nb == Len(A.data)
        qm == [g \in 1..Len(pipes) |-> [k \in 1..nb |->
                 MapIncomingQind(pipes[g], [j \in 1..Len(groups[g]) |-> A.qdata[k][groups[g][j] + 1]])]]
        qd == [k \in 1..nb |-> [x \in 1..m |->
                 IF \E g \in 1..Len(new_axes) : new_axes[g] + 1 = x
                 THEN LET g == CHOOSE g \in 1..Len(new_axes) : new_axes[g] + 1 = x
                      IN  pipes[g].qmap[qm[g][k]].I
                 ELSE A.qdata[k][non[IndexOf(nonnew, x - 1)] + 1]]]
        srt == LexSortPerm(qd)
        qds == Pick(qd, srt)
        diffs == RowDiffs(qds)
        nr == Len(diffs) - 1
        \* the offset, per new axis, where old block k starts in its new block
        beg(k) == [x \in 1..m |->
                     IF \E g \in 1..Len(new_axes) : new_axes[g] + 1 = x
                     THEN LET g == CHOOSE g \in 1..Len(new_axes) : new_axes[g] + 1 = x
                          IN  pipes[g].qmap[qm[g][k]].b0
                     ELSE 0]
        vshape(k) == [x \in 1..m |->
                        IF \E g \in 1..Len(new_axes) : new_axes[g] + 1 = x
                        THEN LET g == CHOOSE g \in 1..Len(new_axes) : new_axes[g] + 1 = x
                             IN  pipes[g].qmap[qm[g][k]].b1 - pipes[g].qmap[qm[g][k]].b0
                        ELSE legs[x].sz[qd[k][x] + 1]]
        oshape(k) == GetBlockShape(A.legs, A.qdata[k])
        inview(k, t) == \A x \in 1..m : beg(k)[x] <= t[x] /\ t[x] < beg(k)[x] + vshape(k)[x]
        block(r) ==
            [t \in BlockIndices(legs, qds[diffs[r] + 1]) |->
                LET js == {j \in (diffs[r] + 1)..diffs[r + 1] : inview(srt[j], t)}
                IN  IF js = {} THEN 0
                    ELSE LET k == srt[Max(js)]
                         IN  A.data[k][Unravel(oshape(k),
                                 Ravel(vshape(k), [x \in 1..m |-> t[x] - beg(k)[x]]))]]
    IN  [A EXCEPT !.legs = legs,
                  !.labels = NoLabels(m),
                  !.qdata = [r \in 1..nr |-> qds[diffs[r] + 1]],
                  !.sorted = TRUE,
                  !.data = [r \in 1..nr |-> block(r)]]


HasDuplicates(s) == \E i, j \in 1..Len(s) : i < j /\ s[i] = s[j]

\* Array._combine_legs_make_pipes for pipes handed in by the caller: a pipe
\* is conjugated when its first leg points the other way; "" when every
\* member leg then passes test_contractible, else the exception
GivenPipe(A, group, pipe) ==
    IF A.legs[group[1] + 1].qconj # pipe.sub[1].qconj THEN LegConj(pipe) ELSE pipe
GivenPipeError(A, group, pipe) ==
    IF Len(pipe.sub) # Len(group) THEN "ValueError"
    ELSE IF \E k \in 1..Len(group) :
               ~Contractible(A.legs[group[k] + 1], LegConj(GivenPipe(A, group, pipe).sub[k]))
    THEN "ValueError"
    ELSE ""

\* Array.combine_legs(groups, new_axes, pipes, qconj).  new_axes and pipes
\* are records [some, v]: some = FALSE stands for None; qconj holds one sign
\* per group.  depth counts the nested calls; python gives up with a
\* RuntimeError at its recursion limit.
RECURSIVE CombineLegsAt(_, _, _, _, _, _)
CombineLegsAt(A, groups, new_axes, pipes, qconj, depth) ==
    LET n == Rank(A)
        np == Len(groups)
        pipeErr == IF ~pipes.some THEN ""
                   ELSE IF Len(pipes.v) # np THEN "ValueError"
                   ELSE IF \E g \in 1..np : GivenPipeError(A, groups[g], pipes.v[g]) # ""
                   THEN "ValueError" ELSE ""
        ps == [g \in 1..np |->
                 IF pipes.some THEN GivenPipe(A, groups[g], pipes.v[g])
                 ELSE MakePipe(A.chinfo, [k \in 1..Len(groups[g]) |-> A.legs[groups[g][k] + 1]], qconj[g])]
        nonLen == Len(NonCombined(n, groups))
        na == IF new_axes.some THEN new_axes.v ELSE DefaultNewAxes(n, groups)
        axErr == new_axes.some /\ (Len(na) # np \/ \E g \in 1..Len(na) : na[g] >= np + nonLen)
        transp == CombineTransp(n, groups, na)
        perm == ArgSort(na)
        sgroups == Pick(groups, perm)
        spipes == Pick(ps, perm)
        sna == Pick(na, perm)
        labels == [i \in 1..n |-> IF A.labels[i] = << >> THEN Placeholder(i - 1) ELSE A.labels[i]]
        plabs == [g \in 1..np |-> PipeLabel([k \in 1..Len(sgroups[g]) |-> labels[sgroups[g][k] + 1]])]
        worked == CombineLegsWorker(A, sgroups, sna, spipes)
    IN  IF depth > RecursionLimit THEN Raise("RuntimeError", A)
        ELSE IF pipeErr # "" THEN Raise(pipeErr, A)
        ELSE IF HasDuplicates(Concat(groups)) THEN Raise("ValueError", A)
        ELSE IF axErr THEN Raise("ValueError", A)
        ELSE IF transp # Identity(n)
        THEN CombineLegsAt(Force(Transpose([A EXCEPT !.labels = SetLegLabels(labels)], transp)),
                           Force([g \in 1..np |-> [k \in 1..Len(sgroups[g]) |-> sna[g] + k - 1]]),
                           Force([some |-> TRUE, v |-> sna]), Force([some |-> TRUE, v |-> spipes]),
                           [g \in 1..np |-> 1], depth + 1)
        ELSE Ok([worked EXCEPT
                    !.labels = SetLegLabels(ReplaceLabels(labels, sna,
                                   [g \in 1..np |-> Len(spipes[g].sub)], plabs, 1))])

None == [some |-> FALSE, v |-> << >>]
CombineLegs(A, groups, qconj) == CombineLegsAt(A, groups, None, None, qconj, 0)

\* the nested calls of combine_legs inside the call at depth: the depth of
\* the call that returns or raises, the branches being those of CombineLegsAt
RECURSIVE CombineLegsDepthAt(_, _, _, _, _, _)
CombineLegsDepthAt(A, groups, new_axes, pipes, qconj, depth) ==
    LET n == Rank(A)
        np == Len(groups)
        pipeErr == IF ~pipes.some THEN ""
                   ELSE IF Len(pipes.v) # np THEN "ValueError"
                   ELSE IF \E g \in 1..np : GivenPipeError(A, groups[g], pipes.v[g]) # ""
                   THEN "ValueError" ELSE ""
        ps == [g \in 1..np |->
                 IF pipes.some THEN GivenPipe(A, groups[g], pipes.v[g])
                 ELSE MakePipe(A.chinfo, [k \in 1..Len(groups[g]) |-> A.legs[groups[g][k] + 1]], qconj[g])]
        nonLen == Len(NonCombined(n, groups))
        na == IF new_axes.some THEN new_axes.v ELSE DefaultNewAxes(n, groups)
        axErr == new_axes.some /\ (Len(na) # np \/ \E g \in 1..Len(na) : na[g] >= np + nonLen)
        transp == CombineTransp(n, groups, na)
        perm == ArgSort(na)
        sgroups == Pick(groups, perm)
        spipes == Pick(ps, perm)
        sna == Pick(na, perm)
    IN  IF depth > RecursionLimit THEN depth
        ELSE IF pipeErr # "" THEN depth
        ELSE IF HasDuplicates(Concat(groups)) THEN depth
        ELSE IF axErr THEN depth
        ELSE IF transp # Identity(n)
        THEN CombineLegsDepthAt(Force(Transpose(A, transp)),
                                Force([g \in 1..np |-> [k \in 1..Len(sgroups[g]) |-> sna[g] + k - 1]]),
                                Force([some |-> TRUE, v |-> sna]), Force([some |-> TRUE, v |-> spipes]),
                                [g \in 1..np |-> 1], depth + 1)
        ELSE depth
CombineLegsDepth(A, groups, qconj) == CombineLegsDepthAt(A, groups, None, None, qconj, 0)

\* Array._split_leg_label: the parts between the dots of nesting depth 0;
\* a part that starts with '?' becomes None
DepthAt(s, p) ==
    Cardinality({i \in 2..(p - 1) : s[i] = "("}) - Cardinality({i \in 2..(p - 1) : s[i] = ")"})
SplitLegLabel(s, count) ==
    IF Len(s) = 0 THEN [err |-> "TypeError", val |-> << >>]
    ELSE IF s[1] # "(" \/ s[Len(s)] # ")" THEN [err |-> "ValueError", val |-> << >>]
    ELSE LET dots == SortedSeq({p \in 2..(Len(s) - 1) : s[p] = "." /\ DepthAt(s, p) = 0})
             cuts == <<1>> \o dots \o <<Len(s)>>
             parts == [i \in 1..(Len(cuts) - 1) |-> SubSeq(s, cuts[i] + 1, cuts[i + 1] - 1)]
         IN  IF Len(parts) # count THEN [err |-> "ValueError", val |-> << >>]
             ELSE IF \E i \in 1..Len(parts) : Len(parts[i]) = 0
             THEN [err |-> "IndexError", val |-> << >>]
             ELSE [err |-> "",
                   val |-> [i \in 1..Len(parts) |-> IF parts[i][1] = "?" THEN << >> ELSE parts[i]]]

\* the loop ``for a in axes: labels[a:a + 1] = self._split_leg_label(...)``
RECURSIVE SplitLabels(_, _, _, _)
SplitLabels(A, labels, axes, i) ==
    IF i > Len(axes) THEN [err |-> "", val |-> labels]
    ELSE LET ax == axes[i]
             lab == IF ax + 1 <= Len(labels) THEN labels[ax + 1] ELSE << >>
             r == SplitLegLabel(lab, Len(A.legs[ax + 1].sub))
         IN  IF r.err # "" THEN r
             ELSE SplitLabels(A, SubSeq(labels, 1, ax) \o r.val \o SubSeq(labels, ax + 2, Len(labels)),
                              axes, i + 1)

\* Array._split_legs_worker for a set of distinct pipe axes, cutoff = 0
SplitLegsWorker(A, split_axes) ==
    LET axes == SortedSeq({split_axes[i] : i \in 1..Len(split_axes)})
        n == Rank(A)
        isSplit(x) == \E i \in 1..Len(axes) : axes[i] = x
        legs == Concat([x \in 1..n |-> IF isSplit(x - 1) THEN A.legs[x].sub ELSE <<A.legs[x]>>])
        \* for a block, the rows of qmap of every split pipe: the last pipe changes fastest
        choices(k) ==
            LET cnt == [i \in 1..Len(axes) |->
                          Cardinality({p \in 1..Len(A.legs[axes[i] + 1].qmap) :
                              A.legs[axes[i] + 1].qmap[p].I = A.qdata[k][axes[i] + 1]})]
                rowsOf(i) == SortedSeq({p \in 1..Len(A.legs[axes[i] + 1].qmap) :
                                A.legs[axes[i] + 1].qmap[p].I = A.qdata[k][axes[i] + 1]})
                total == ProdTo(cnt, Len(cnt))
            IN  [cc \in 1..total |-> [i \in 1..Len(axes) |-> rowsOf(i)[Unravel(cnt, cc - 1)[i] + 1]]]
        newrow(k, ch) ==
            Concat([x \in 1..n |->
                IF isSplit(x - 1)
                THEN A.legs[x].qmap[ch[IndexOf(axes, x - 1)]].q
                ELSE <<A.qdata[k][x]>>])
        \* the slice of the old block and its shape
        sbeg(k, ch) == [x \in 1..n |-> IF isSplit(x - 1) THEN A.legs[x].qmap[ch[IndexOf(axes, x - 1)]].b0 ELSE 0]
        sshape(k, ch) ==
            [x \in 1..n |->
                IF isSplit(x - 1)
                THEN A.legs[x].qmap[ch[IndexOf(axes, x - 1)]].b1 - A.legs[x].qmap[ch[IndexOf(axes, x - 1)]].b0
                ELSE A.legs[x].sz[A.qdata[k][x] + 1]]
        newblock(k, ch) ==
            [t \in BlockIndices(legs, newrow(k, ch)) |->
                LET u == Unravel(sshape(k, ch), Ravel(GetBlockShape(legs, newrow(k, ch)), t))
                IN  A.data[k][[x \in 1..n |-> sbeg(k, ch)[x] + u[x]]]]
        cand == Concat([k \in 1..Len(A.data) |->
                    [cc \in 1..Len(choices(k)) |-> [k |-> k, ch |-> choices(k)[cc]]]])
        kept == SelectSeq(cand, LAMBDA e : ~IsZeroBlock(newblock(e.k, e.ch)))
    IN  [A EXCEPT !.legs = legs,
                  !.qdata = [i \in 1..Len(kept) |-> newrow(kept[i].k, kept[i].ch)],
                  !.data = [i \in 1..Len(kept) |-> newblock(kept[i].k, kept[i].ch)],
                  !.sorted = (Len(kept) = 0)]

\* Array.split_legs(axes, cutoff=0.): axes is a record [some, v], None = all pipes
SplitLegs(A, axes) ==
    LET ax == IF axes.some THEN axes.v
              ELSE SortedSeq({x \in 0..(Rank(A) - 1) : IsPipe(A.legs[x + 1])})
        labs == SplitLabels(A, A.labels, ax, 1)
    IN  IF axes.some /\ ~HasDuplicates(ax) THEN Raise("ValueError", A)
        ELSE IF \E i \in 1..Len(ax) : ~IsPipe(A.legs[ax[i] + 1]) THEN Raise("ValueError", A)
        ELSE IF Len(ax) = 0 THEN Ok(A)
        \* the worker replaces the pipe at a repeated axis once, and then asks
        \* the member leg it finds there for its .legs
        ELSE IF HasDuplicates(ax) THEN Raise("AttributeError", A)
        ELSE IF labs.err # "" THEN Raise(labs.err, A)
        ELSE IF Len(labs.val) # Rank(SplitLegsWorker(A, ax)) THEN Raise("ValueError", A)
        ELSE Ok([SplitLegsWorker(A, ax) EXCEPT !.labels = SetLegLabels(labs.val)])


\* ------------------------------------------------------- binary operations
\* Array.isort_qdata
ISortQdata(A) ==
    IF A.sorted THEN A
    ELSE IF Len(A.qdata) < 2 THEN [A EXCEPT !.sorted = TRUE]
    ELSE LET perm == LexSortPerm(A.qdata)
         IN  [A EXCEPT !.qdata = Pick(A.qdata, perm), !.data = Pick(A.data, perm), !.sorted = TRUE]

\* the functions handed to binary_blockwise: np.add and np.subtract
FApply(f, x, y) == IF f = "add" THEN x + y ELSE x - y
Blockwise(f, blk1, blk2) == [t \in DOMAIN blk1 |-> FApply(f, blk1[t], blk2[t])]
ZerosLike(blk) == [t \in DOMAIN blk |-> 0]

\* the loop ``while i < Na or j < Nb`` of Array.ibinary_blockwise from the
\* positions i, j: aq[i] and bq[j] are read before either bound is tested
RECURSIVE MergeRows(_, _, _, _, _, _, _)
MergeRows(f, A, B, i, j, qdata, data) ==
    LET Na == Len(A.qdata)
        Nb == Len(B.qdata)
    IN  IF ~(i < Na \/ j < Nb) THEN [err |-> "", qdata |-> qdata, data |-> data]
        ELSE IF i >= Na \/ j >= Nb THEN [err |-> "IndexError", qdata |-> qdata, data |-> data]
        ELSE IF A.qdata[i + 1] = B.qdata[j + 1]
        THEN MergeRows(f, A, B, i + 1, j + 1, Append(qdata, A.qdata[i + 1]),
                       Append(data, Blockwise(f, A.data[i + 1], B.data[j + 1])))
        ELSE IF LexLess(A.qdata[i + 1], B.qdata[j + 1])
        THEN MergeRows(f, A, B, i + 1, j, Append(qdata, A.qdata[i + 1]),
                       Append(data, Blockwise(f, A.data[i + 1], ZerosLike(A.data[i + 1]))))
        ELSE MergeRows(f, A, B, i, j + 1, Append(qdata, B.qdata[j + 1]),
                       Append(data, Blockwise(f, ZerosLike(B.data[j + 1]), B.data[j + 1])))

\* Array.ibinary_blockwise(func, other) on self
IBinaryBlockwise(f, Self, Other) ==
    LET A == Force(ISortQdata(Self))
        B == Force(ISortQdata(Other))
        m == MergeRows(f, A, B, 0, 0, << >>, << >>)
    IN  IF \E k \in 1..Min({Rank(Self), Rank(Other)}) : ~LegEqual(Self.legs[k], Other.legs[k])
        THEN Raise("ValueError", Self)
        ELSE IF A.qdata = B.qdata
        THEN Ok([A EXCEPT !.data = [k \in 1..Len(A.data) |-> Blockwise(f, A.data[k], B.data[k])]])
        ELSE IF m.err # "" THEN Raise(m.err, A)
        ELSE Ok([A EXCEPT !.data = m.data, !.qdata = m.qdata])

\* Array.binary_blockwise: the same on a shallow copy of self; Array.__add__
BinaryBlockwise(f, Self, Other) == IBinaryBlockwise(f, Self, Other)
Add(Self, Other) == BinaryBlockwise("add", Self, Other)

\* what the call leaves in other: other.isort_qdata() ran unless the legs differ
OtherAfter(Self, Other) ==
    IF \E k \in 1..Min({Rank(Self), Rank(Other)}) : ~LegEqual(Self.legs[k], Other.legs[k])
    THEN Other ELSE ISortQdata(Other)

\* _iter_common_sorted(a, b, a_idx, b_idx) for the ranges a_idx = i..(a1 - 1),
\* b_idx = j..(b1 - 1) (positions from 0): the pairs it yields, in order.
\* TailA and TailB are the two loops after one iterator has finished.
TailA(as, bs, from, a1, j) ==
    [p \in 1..Cardinality({i \in from..(a1 - 1) : as[i + 1] = bs[j + 1]}) |->
        <<SortedSeq({i \in from..(a1 - 1) : as[i + 1] = bs[j + 1]})[p], j>>]
TailB(as, bs, i, from, b1) ==
    [p \in 1..Cardinality({j \in from..(b1 - 1) : as[i + 1] = bs[j + 1]}) |->
        <<i, SortedSeq({j \in from..(b1 - 1) : as[i + 1] = bs[j + 1]})[p]>>]
RECURSIVE CommonFrom(_, _, _, _, _, _)
CommonFrom(as, bs, i, a1, j, b1) ==
    IF as[i + 1] < bs[j + 1]
    THEN IF i + 1 < a1 THEN CommonFrom(as, bs, i + 1, a1, j, b1) ELSE TailB(as, bs, i, j + 1, b1)
    ELSE IF bs[j + 1] < as[i + 1]
    THEN IF j + 1 < b1 THEN CommonFrom(as, bs, i, a1, j + 1, b1) ELSE TailA(as, bs, i + 1, a1, j)
    ELSE <<<<i, j>>>> \o
         (IF i + 1 >= a1 THEN TailB(as, bs, i, j + 1, b1)
          ELSE IF j + 1 >= b1 THEN TailA(as, bs, i + 2, a1, j)
          ELSE CommonFrom(as, bs, i + 1, a1, j + 1, b1))
IterCommonSorted(as, bs, a0, a1, b0, b1) ==
    IF a0 >= a1 \/ b0 >= b1 THEN << >> ELSE CommonFrom(as, bs, a0, a1, b0, b1)

\* np.cumprod([1] + [l.block_number for l in legs[:-1]]) and the combined
\* index np.sum(qdata * stride) of a part of a row
Stride(legs, k) == ProdTo([j \in 1..Len(legs) |-> BlockNumber(legs[j])], k - 1)
QSum(legs, part) == SumTo([k \in 1..Len(part) |-> part[k] * Stride(legs, k)], Len(part))

\* np.inner(x.reshape((-1,)), y.reshape((-1,))) of two blocks of one shape
BlockInner(x, y) == SumOver([t \in DOMAIN x |-> x[t] * y[t]], DOMAIN x)

\* np.tensordot(x, y, axes): the last axes of x against the first of y
BlockTensordot(x, shx, y, shy, axes) ==
    LET keepx == SubSeq(shx, 1, Len(shx) - axes)
        keepy == SubSeq(shy, axes + 1, Len(shy))
        K == Tuples(SubSeq(shy, 1, axes))
    IN  [t \in Tuples(keepx \o keepy) |->
            SumOver([k \in K |-> x[SubSeq(t, 1, Len(keepx)) \o k]
                                 * y[k \o SubSeq(t, Len(keepx) + 1, Len(t))]], K)]

\* inner(a, b) with axes=None, do_conj=False: a number
Inner(A, B) ==
    LET as0 == [k \in 1..Len(A.qdata) |-> QSum(A.legs, A.qdata[k])]
        bs0 == [k \in 1..Len(B.qdata) |-> QSum(A.legs, B.qdata[k])]
        pa == IF A.sorted THEN [k \in 1..Len(as0) |-> k] ELSE ArgSort(as0)
        pb == IF B.sorted THEN [k \in 1..Len(bs0) |-> k] ELSE ArgSort(bs0)
        as == Pick(as0, pa)
        bs == Pick(bs0, pb)
        common == IterCommonSorted(as, bs, 0, Len(as), 0, Len(bs))
    IN  IF Rank(A) # Rank(B) THEN Raise("ValueError", 0)
        ELSE IF A.chinfo # B.chinfo THEN Raise("ValueError", 0)
        ELSE IF \E k \in 1..Rank(A) : ~Contractible(A.legs[k], B.legs[k]) THEN Raise("ValueError", 0)
        ELSE IF MakeValid(A.chinfo, A.qtotal + B.qtotal) # 0 THEN Ok(0)
        ELSE IF Len(A.data) = 0 \/ Len(B.data) = 0 THEN Ok(0)
        ELSE Ok(SumTo([p \in 1..Len(common) |->
                         BlockInner(A.data[pa[common[p][1] + 1]], B.data[pb[common[p][2] + 1]])],
                      Len(common)))

\* outer(a, b): every pair of blocks, the blocks of a changing fastest
Outer(A, B) ==
    LET la == Len(A.qdata)
        lb == Len(B.qdata)
        ia(p) == ((p - 1) % la) + 1
        ib(p) == ((p - 1) \div la) + 1
        legs == A.legs \o B.legs
    IN  IF A.chinfo # B.chinfo THEN Raise("ValueError", A)
        ELSE Ok([NewArray(A.chinfo, legs, A.qtotal + B.qtotal) EXCEPT
                    !.qdata = [p \in 1..(la * lb) |-> A.qdata[ia(p)] \o B.qdata[ib(p)]],
                    !.data = [p \in 1..(la * lb) |->
                                [t \in BlockIndices(legs, A.qdata[ia(p)] \o B.qdata[ib(p)]) |->
                                    A.data[ia(p)][SubSeq(t, 1, Rank(A))]
                                    * B.data[ib(p)][SubSeq(t, Rank(A) + 1, Len(t))]]],
                    !.sorted = A.sorted /\ B.sorted])


\* _tensordot_pre_worker: the blocks of a sorted by (kept axes, summed axes),
\* those of b sorted the same way unless b._qdata_sorted says they are
TensordotPreWorker(A, B, cut_a, cut_b) ==
    LET sumlegs == SubSeq(A.legs, cut_a + 1, Rank(A))
        akeep0 == [k \in 1..Len(A.qdata) |-> SubSeq(A.qdata[k], 1, cut_a)]
        asum0 == [k \in 1..Len(A.qdata) |-> QSum(sumlegs, SubSeq(A.qdata[k], cut_a + 1, Rank(A)))]
        a_sort == LexSortPerm([k \in 1..Len(A.qdata) |-> <<asum0[k]>> \o akeep0[k]])
        bkeep0 == [k \in 1..Len(B.qdata) |-> SubSeq(B.qdata[k], cut_b + 1, Rank(B))]
        bsum0 == [k \in 1..Len(B.qdata) |-> QSum(sumlegs, SubSeq(B.qdata[k], 1, cut_b))]
        b_sort == IF B.sorted THEN [k \in 1..Len(B.qdata) |-> k]
                  ELSE LexSortPerm([k \in 1..Len(B.qdata) |-> <<bsum0[k]>> \o bkeep0[k]])
        akeep == Pick(akeep0, a_sort)
        bkeep == Pick(bkeep0, b_sort)
    IN  [a_data |-> Pick(A.data, a_sort), a_rows |-> Pick(A.qdata, a_sort),
         a_qdata_sum |-> Pick(asum0, a_sort), a_keep |-> akeep, a_slices |-> RowDiffs(akeep),
         b_data |-> Pick(B.data, b_sort), b_rows |-> Pick(B.qdata, b_sort),
         b_qdata_sum |-> Pick(bsum0, b_sort), b_keep |-> bkeep, b_slices |-> RowDiffs(bkeep)]

\* a_charges_keep and b_charges_keep of _tensordot_pre_worker for one kept row:
\* chinfo.make_valid(np.sum([l.get_charge(qi) for l, qi in zip(legs, row)]))
ChargesKeepNoConj(chinfo, legs, row) ==
    MakeValid(chinfo, SumTo([k \in 1..Len(row) |-> legs[k].ch[row[k] + 1]], Len(row)))
ChargesKeep(chinfo, legs, row) == GetBlockCharge(chinfo, legs, row)

\* the loops of _tensordot_worker: for every pair (col_b, row_a) in the order
\* of the loops, the kept rows, whether the charge test skips the pair, and
\* the pairs of rows (of a, of b) np.tensordot is called with
TensordotCalls(A, B, axes) ==
    LET cut_a == Rank(A) - axes
        cut_b == axes
        pre == Force(TensordotPreWorker(A, B, cut_a, cut_b))
        qtotal == MakeValid(A.chinfo, A.qtotal + B.qtotal)
        alegs == SubSeq(A.legs, 1, cut_a)
        blegs == SubSeq(B.legs, cut_b + 1, Rank(B))
        na == Len(pre.a_slices) - 1
        nb == Len(pre.b_slices) - 1
        arow(r) == pre.a_keep[pre.a_slices[r] + 1]
        bcol(cc) == pre.b_keep[pre.b_slices[cc] + 1]
        pairs(r, cc) == IterCommonSorted(pre.a_qdata_sum, pre.b_qdata_sum,
                                         pre.a_slices[r], pre.a_slices[r + 1],
                                         pre.b_slices[cc], pre.b_slices[cc + 1])
        skipped(r, cc) == MakeValid(A.chinfo, ChargesKeep(A.chinfo, blegs, bcol(cc))
                                              + ChargesKeep(A.chinfo, alegs, arow(r))) # qtotal
        entry(r, cc) ==
            [a_keep |-> arow(r), b_keep |-> bcol(cc), skipped |-> skipped(r, cc),
             a_group |-> [k \in 1..(pre.a_slices[r + 1] - pre.a_slices[r]) |->
                             pre.a_rows[pre.a_slices[r] + k]],
             b_group |-> [k \in 1..(pre.b_slices[cc + 1] - pre.b_slices[cc]) |->
                             pre.b_rows[pre.b_slices[cc] + k]],
             calls |-> IF skipped(r, cc) THEN << >>
                       ELSE [q \in 1..Len(pairs(r, cc)) |->
                                <<pre.a_rows[pairs(r, cc)[q][1] + 1],
                                  pre.b_rows[pairs(r, cc)[q][2] + 1]>>]]
    IN  [p \in 1..(na * nb) |-> entry(((p - 1) % na) + 1, ((p - 1) \div na) + 1)]

\* _tensordot_worker: sum over the last axes legs of a and the first of b;
\* the test_sanity() at its end raises when the rows it built are not sorted.
\* filter = FALSE is the worker without its `continue` on a charge mismatch
TensordotWorkerFiltered(A, B, axes, filter) ==
    LET cut_a == Rank(A) - axes
        cut_b == axes
        pre == Force(TensordotPreWorker(A, B, cut_a, cut_b))
        qtotal == MakeValid(A.chinfo, A.qtotal + B.qtotal)
        alegs == SubSeq(A.legs, 1, cut_a)
        blegs == SubSeq(B.legs, cut_b + 1, Rank(B))
        na == Len(pre.a_slices) - 1
        nb == Len(pre.b_slices) - 1
        arow(r) == pre.a_keep[pre.a_slices[r] + 1]
        bcol(cc) == pre.b_keep[pre.b_slices[cc] + 1]
        pairs(r, cc) == IterCommonSorted(pre.a_qdata_sum, pre.b_qdata_sum,
                                         pre.a_slices[r], pre.a_slices[r + 1],
                                         pre.b_slices[cc], pre.b_slices[cc + 1])
        cand == [p \in 1..(na * nb) |-> [r |-> ((p - 1) % na) + 1, cc |-> ((p - 1) \div na) + 1]]
        kept == SelectSeq(cand, LAMBDA e :
                    /\ filter =>
                          MakeValid(A.chinfo, ChargesKeep(A.chinfo, blegs, bcol(e.cc))
                                              + ChargesKeep(A.chinfo, alegs, arow(e.r))) = qtotal
                    /\ Len(pairs(e.r, e.cc)) > 0)
        term(e, p) ==
            LET k1 == pairs(e.r, e.cc)[p][1] + 1
                k2 == pairs(e.r, e.cc)[p][2] + 1
            IN  BlockTensordot(pre.a_data[k1], GetBlockShape(A.legs, pre.a_rows[k1]),
                               pre.b_data[k2], GetBlockShape(B.legs, pre.b_rows[k2]), axes)
        block(e) ==
            LET n == Len(pairs(e.r, e.cc))
                terms == Force([p \in 1..n |-> term(e, p)])
            IN  [t \in DOMAIN terms[1] |-> SumTo([p \in 1..n |-> terms[p][t]], n)]
        rows == [i \in 1..Len(kept) |-> arow(kept[i].r) \o bcol(kept[i].cc)]
    IN  IF ~IsLexSorted(rows) THEN Raise("ValueError", A)
        ELSE Ok([NewArray(A.chinfo, alegs \o blegs, qtotal) EXCEPT
                    !.qdata = rows,
                    !.data = [i \in 1..Len(kept) |-> block(kept[i])],
                    !.sorted = TRUE])
TensordotWorker(A, B, axes) == TensordotWorkerFiltered(A, B, axes, TRUE)

\* tensordot(a, b, axes) once a and b are in standard form and axes is an
\* integer; the Arrays of this model carry no labels into a contraction
TensordotInt(A, B, axes) ==
    IF axes = 0 THEN Outer(A, B)
    ELSE IF axes = Rank(A) /\ axes = Rank(B) THEN Inner(A, B)
    ELSE IF \E k \in 1..axes : ~Contractible(A.legs[Rank(A) - axes + k], B.legs[k])
    THEN Raise("ValueError", A)
    ELSE TensordotWorker(A, B, axes)

\* tensordot(a, b, (axes_a, axes_b)): shallow copies are transposed first
Tensordot(A, B, axes_a, axes_b) ==
    LET not_a == SortedSeq({x \in 0..(Rank(A) - 1) : \A i \in 1..Len(axes_a) : axes_a[i] # x})
        not_b == SortedSeq({x \in 0..(Rank(B) - 1) : \A i \in 1..Len(axes_b) : axes_b[i] # x})
    IN  IF A.chinfo # B.chinfo THEN Raise("ValueError", A)
        ELSE TensordotInt(Force(Transpose(A, not_a \o axes_a)),
                          Force(Transpose(B, axes_b \o not_b)), Len(axes_a))

\* the contraction of two dense buffers of the given shapes over the paired
\* axes: a's other axes first, then b's
DenseTensordot(da, sha, db, shb, axes_a, axes_b) ==
    LET not_a == SortedSeq({x \in 0..(Len(sha) - 1) : \A i \in 1..Len(axes_a) : axes_a[i] # x})
        not_b == SortedSeq({x \in 0..(Len(shb) - 1) : \A i \in 1..Len(axes_b) : axes_b[i] # x})
        K == Tuples([i \in 1..Len(axes_a) |-> sha[axes_a[i] + 1]])
        ia(t, k) == [x \in 1..Len(sha) |->
                       IF IndexOf(axes_a, x - 1) > 0 THEN k[IndexOf(axes_a, x - 1)]
                       ELSE t[IndexOf(not_a, x - 1)]]
        ib(t, k) == [x \in 1..Len(shb) |->
                       IF IndexOf(axes_b, x - 1) > 0 THEN k[IndexOf(axes_b, x - 1)]
                       ELSE t[Len(not_a) + IndexOf(not_b, x - 1)]]
    IN  [t \in Tuples([i \in 1..Len(not_a) |-> sha[not_a[i] + 1]]
                      \o [i \in 1..Len(not_b) |-> shb[not_b[i] + 1]]) |->
            SumOver([k \in K |-> da[ia(t, k)] * db[ib(t, k)]], K)]


\* ------------------------------------------------------------- the inputs
\* the moduli of the charge: unbounded and cyclic
Mods == {0, 3}
QTotals == {0, 1}

LegPool ==
    {PlainLeg(1, <<0, 1, 0>>, <<1, 1, 1>>),
     PlainLeg(1, <<0, 0>>, <<1, 1>>),
     PlainLeg(-1, <<0, 1>>, <<2, 1>>),
     PlainLeg(-1, <<1, 2>>, <<1, 1>>)}

\* a nonzero entry that tells the flat indices apart
ValueAt(idx) == 1 + SumTo([k \in 1..Len(idx) |-> idx[k] * (4 ^ (k - 1))], Len(idx))

CompatRows(mod, legs, q) ==
    {r \in Tuples([k \in 1..Len(legs) |-> BlockNumber(legs[k])]) :
        GetBlockCharge(mod, legs, r) = MakeValid(mod, q)}

\* the dense buffer whose entries are nonzero exactly in the blocks of present
DenseOf(legs, present) ==
    [idx \in DenseIndices(legs) |-> IF RowOf(legs, idx) \in present THEN ValueAt(idx) ELSE 0]

\* the Arrays from_ndarray builds over the given legs
ArraysOver(mod, legs, q) ==
    {FromNdarray(DenseOf(legs, present), mod, legs, q) : present \in SUBSET CompatRows(mod, legs, q)}

InitArrays ==
    UNION {ArraysOver(x[1], <<x[2], x[3]>>, x[4]) : x \in Mods \X LegPool \X LegPool \X QTotals}

NoArray == NewArray(0, << >>, 0)
NoRes == Ok(NoArray)

\* ------------------------------------------------ Spec: one Array, its methods
\* a is the Array the methods are called on, op the last call, arg its
\* arguments, res what it returned or raised
Init ==
    /\ a \in InitArrays
    /\ b = NoArray
    /\ c = NoArray
    /\ res = NoRes
    /\ res2 = NoRes
    /\ op = "from_ndarray"
    /\ arg = << >>
    /\ steps = 0

Step(name) == steps < MaxSteps /\ steps' = steps + 1 /\ op' = name

DoConj ==
    /\ Step("conj")
    /\ a' = Conj(a)
    /\ arg' = << >>
    /\ UNCHANGED <<b, c, res, res2>>

DoPurgeZeros ==
    /\ Step("ipurge_zeros")
    /\ a' = IPurgeZeros(a)
    /\ arg' = << >>
    /\ UNCHANGED <<b, c, res, res2>>

DoTranspose ==
    /\ Step("transpose")
    /\ \E axes \in {p \in [1..Rank(a) -> 0..(Rank(a) - 1)] : IsPermutation(p, Rank(a))} :
          /\ a' = Transpose(a, axes)
          /\ arg' = axes
    /\ UNCHANGED <<b, c, res, res2>>

DoSortLegcharge ==
    /\ Step("sort_legcharge")
    /\ \A k \in 1..Rank(a) : ~IsPipe(a.legs[k])
    /\ \E bunch \in [1..Rank(a) -> BOOLEAN] :
          /\ a' = SortLegcharge(a, bunch)
          /\ arg' = bunch
    /\ UNCHANGED <<b, c, res, res2>>

DoGaugeTotalCharge ==
    /\ Step("gauge_total_charge")
    /\ \E leg \in 0..(Rank(a) - 1), newq \in QTotals :
          /\ a' = GaugeTotalCharge(a, leg, newq)
          /\ arg' = <<leg, newq>>
    /\ UNCHANGED <<b, c, res, res2>>

DoTakeSlice ==
    /\ Step("take_slice")
    /\ Rank(a) >= 2
    /\ \E ax \in 0..(Rank(a) - 1) : \E i \in 0..(IndLen(a.legs[ax + 1]) - 1) :
          /\ a' = TakeSlice(a, <<i>>, <<ax>>)
          /\ arg' = <<i, ax>>
    /\ UNCHANGED <<b, c, res, res2>>

\* self[idx] = v; when it raises, self is as before
DoSetItem ==
    /\ Step("setitem")
    /\ \E idx \in DenseIndices(a.legs) :
          LET r == SetItem(a, idx, 9)
          IN  /\ a' = r.val
              /\ res' = [r EXCEPT !.val = NoArray]
              /\ arg' = idx
    /\ UNCHANGED <<b, c, res2>>

\* Array.from_ndarray(self.to_ndarray(), self.chinfo, self.legs, self.dtype, self.qtotal)
DoRoundTrip ==
    /\ Step("round_trip")
    /\ res' = Ok(FromNdarray(ToNdarray(a), a.chinfo, a.legs, a.qtotal))
    /\ arg' = << >>
    /\ UNCHANGED <<a, b, c, res2>>

Next ==
    \/ DoConj
    \/ DoPurgeZeros
    \/ DoTranspose
    \/ DoSortLegcharge
    \/ DoGaugeTotalCharge
    \/ DoTakeSlice
    \/ DoSetItem
    \/ DoRoundTrip

Spec == Init /\ [][Next]_vars

\* ------------------------------------- SpecReshape: combine_legs, split_legs
LegP == PlainLeg(1, <<0, 1>>, <<1, 1>>)
LegM == PlainLeg(-1, <<0, 1>>, <<1, 1>>)
LegOne == PlainLeg(1, <<0>>, <<1>>)
ReshapeLegs ==
    {<<LegP, LegM, LegP>>, <<LegP, LegP, LegM, LegM>>,
     <<LegP, LegM, LegP, LegM, LegP>>, <<LegOne, LegOne, LegOne, LegOne, LegOne>>}

Letters == <<"a", "b", "c", "d", "e">>
Labelled(A) == [A EXCEPT !.labels = [k \in 1..Rank(A) |-> <<Letters[k]>>]]

\* the Arrays of from_ndarray over the legs: every compatible block nonzero,
\* or every second one with the zero blocks purged; with and without labels
ReshapeArrays ==
    LET full(mod, legs, q) == FromNdarray(DenseOf(legs, CompatRows(mod, legs, q)), mod, legs, q)
        half(mod, legs, q) ==
            LET rows == SelectSeq(IterAllBlocks(legs), LAMBDA r : r \in CompatRows(mod, legs, q))
            IN  IPurgeZeros(FromNdarray(DenseOf(legs, {rows[i] : i \in {j \in 1..Len(rows) : j % 2 = 1}}),
                                        mod, legs, q))
        plain == UNION {{full(x[1], x[2], 0), half(x[1], x[2], 1)} : x \in Mods \X ReshapeLegs}
    IN  plain \cup {Labelled(A) : A \in plain}

\* lists of at most MaxGroups disjoint groups of at most MaxGroupLen axes
AxisGroups(n) ==
    {g \in UNION {[1..len -> 0..(n - 1)] : len \in 1..MaxGroupLen} : ~HasDuplicates(g)}
GroupLists(n) ==
    {gs \in UNION {[1..k -> AxisGroups(n)] : k \in 1..MaxGroups} : ~HasDuplicates(Concat(gs))}

\* the axes of the LegPipes of A, ascending
PipeAxes(A) == SortedSeq({x \in 0..(Rank(A) - 1) : IsPipe(A.legs[x + 1])})

InitReshape ==
    /\ a \in ReshapeArrays
    /\ b = NoArray
    /\ c = NoArray
    /\ res = NoRes
    /\ res2 = NoRes
    /\ op = "from_ndarray"
    /\ arg = << >>
    /\ steps = 0

\* res = a.combine_legs(groups, qconj=qconj)
DoCombineLegs ==
    /\ op = "from_ndarray"
    /\ \E groups \in GroupLists(Rank(a)) : \E q2 \in {1, -1} :
          LET qconj == [g \in 1..Len(groups) |-> IF g = 1 THEN 1 ELSE q2]
          IN  /\ res' = CombineLegs(a, groups, qconj)
              /\ arg' = [groups |-> groups, qconj |-> qconj]
    /\ op' = "combine_legs"
    /\ steps' = steps + 1
    /\ UNCHANGED <<a, b, c, res2>>

\* res2 = res.split_legs(axes): axes None, or the axes of the pipes
DoSplitLegs ==
    /\ op = "combine_legs"
    /\ res.err = ""
    /\ \E axes \in {None, [some |-> TRUE, v |-> PipeAxes(res.val)]} :
          /\ res2' = SplitLegs(res.val, axes)
          /\ arg' = [groups |-> arg.groups, qconj |-> arg.qconj, axes |-> axes]
    /\ op' = "split_legs"
    /\ steps' = steps + 1
    /\ UNCHANGED <<a, b, c, res>>

NextReshape ==
    \/ DoCombineLegs
    \/ DoSplitLegs

SpecReshape == InitReshape /\ [][NextReshape]_vars


\* --------------------------------- SpecSplit: split_legs with any list of axes
\* split_legs is called with at most MaxSplitAxes axes
MaxSplitAxes == 2

InitSplit == InitReshape /\ Rank(a) = 3

\* the lists of axes of A, repeated axes and axes of plain legs included
AxisLists(A) == UNION {[1..len -> 0..(Rank(A) - 1)] : len \in 1..MaxSplitAxes}

\* res2 = res.split_legs(axes) for an explicit list of axes
DoSplitAxes ==
    /\ op = "combine_legs"
    /\ res.err = ""
    /\ \E axes \in AxisLists(res.val) :
          /\ res2' = SplitLegs(res.val, [some |-> TRUE, v |-> axes])
          /\ arg' = [groups |-> arg.groups, qconj |-> arg.qconj, axes |-> axes]
    /\ op' = "split_axes"
    /\ steps' = steps + 1
    /\ UNCHANGED <<a, b, c, res>>

NextSplit ==
    \/ DoCombineLegs
    \/ DoSplitAxes

SpecSplit == InitSplit /\ [][NextSplit]_vars


\* ----------------------------- SpecBin: two and three Arrays, contractions
\* a is brought into its state by the methods of Spec; a binary operation then
\* takes it with fresh operands: b and c are the operands of the call as it
\* left them, res (and res2) what it returned or raised
BinLegPairs ==
    {<<PlainLeg(1, <<0, 1, 0>>, <<1, 1, 1>>), PlainLeg(1, <<0, 0>>, <<1, 1>>)>>,
     <<PlainLeg(-1, <<0, 1>>, <<2, 1>>), PlainLeg(1, <<0, 1, 0>>, <<1, 1, 1>>)>>}

\* the block patterns of the operands: all compatible blocks, all but one, one
Presents(S) == {S} \cup {S \ {r} : r \in S} \cup {{r} : r \in S}

\* the operands: from_ndarray of a dense buffer, the zero blocks purged or kept
OperandsOf(mod, legs, q) ==
    UNION {{FromNdarray(DenseOf(legs, present), mod, legs, q),
            IPurgeZeros(FromNdarray(DenseOf(legs, present), mod, legs, q))} :
              present \in Presents(CompatRows(mod, legs, q))}
Operands(mod, legs) == UNION {OperandsOf(mod, legs, q) : q \in QTotals}
FullOperands(mod, legs) ==
    {FromNdarray(DenseOf(legs, CompatRows(mod, legs, q)), mod, legs, q) : q \in QTotals}
\* the partners of a contraction: all compatible blocks, or all but one
Partners(mod, legs) ==
    UNION {{IPurgeZeros(FromNdarray(DenseOf(legs, present), mod, legs, q)) :
              present \in {CompatRows(mod, legs, q)} \cup
                          {CompatRows(mod, legs, q) \ {r} : r \in CompatRows(mod, legs, q)}} :
           q \in QTotals}

InitBin ==
    /\ a \in UNION {Operands(x[1], x[2]) : x \in Mods \X BinLegPairs}
    /\ b = NoArray
    /\ c = NoArray
    /\ res = NoRes
    /\ res2 = NoRes
    /\ op = "from_ndarray"
    /\ arg = << >>
    /\ steps = 0

IsUnary(name) == name \in {"from_ndarray", "ipurge_zeros", "sort_legcharge"}

\* the methods that bring a into its state, before the binary operation
BinPurgeZeros == IsUnary(op) /\ DoPurgeZeros
BinSortLegcharge == IsUnary(op) /\ DoSortLegcharge

\* res = tensordot(b, c, (axes_a, axes_b)) over one pair of axes, a being b or c
DoTensordot ==
    /\ IsUnary(op)
    /\ \E ia \in 0..1, ix \in 0..1 :
          \E x \in Partners(a.chinfo,
                            [k \in 1..2 |-> IF k = ix + 1 THEN LegConj(a.legs[ia + 1]) ELSE LegP]) :
             \E call \in {[A |-> x, B |-> a, axes_a |-> <<ix>>, axes_b |-> <<ia>>],
                          [A |-> a, B |-> x, axes_a |-> <<ia>>, axes_b |-> <<ix>>]} :
                /\ res' = Tensordot(call.A, call.B, call.axes_a, call.axes_b)
                /\ b' = call.A
                /\ c' = call.B
                /\ arg' = [axes_a |-> call.axes_a, axes_b |-> call.axes_b]
    /\ op' = "tensordot"
    /\ steps' = steps + 1
    /\ UNCHANGED <<a, res2>>

\* res = inner(b, c), a being b or c; the number it returns is res.val.scalar
DoInner ==
    /\ IsUnary(op)
    /\ \E x \in Partners(a.chinfo, [k \in 1..Rank(a) |-> LegConj(a.legs[k])]) :
          \E call \in {[A |-> x, B |-> a], [A |-> a, B |-> x]} :
             /\ \E r \in {Inner(call.A, call.B)} :
                   res' = [err |-> r.err, val |-> [scalar |-> r.val]]
             /\ b' = call.A
             /\ c' = call.B
    /\ arg' = << >>
    /\ op' = "inner"
    /\ steps' = steps + 1
    /\ UNCHANGED <<a, res2>>

NextBin ==
    \/ BinPurgeZeros
    \/ BinSortLegcharge
    \/ DoTensordot
    \/ DoInner

SpecBin == InitBin /\ [][NextBin]_vars


\* ------------------------------------- SpecAdd: blockwise sums of two Arrays
\* res = b.binary_blockwise(f, c): self is a, or a is other and is sorted in place
DoBinaryBlockwise ==
    /\ IsUnary(op)
    /\ \E f \in {"add", "subtract"} : \E x \in OperandsOf(a.chinfo, a.legs, a.qtotal) :
          \E call \in {[self |-> a, other |-> x], [self |-> x, other |-> a]} :
             \E after \in {OtherAfter(call.self, call.other)} :
                /\ res' = BinaryBlockwise(f, call.self, call.other)
                /\ b' = call.self
                /\ c' = after
                /\ a' = IF call.other = a THEN after ELSE a
                /\ arg' = f
    /\ op' = "binary_blockwise"
    /\ steps' = steps + 1
    /\ UNCHANGED res2

\* x + y of outcomes: the first exception goes on
AddOutcomes(r1, r2) ==
    IF r1.err # "" THEN r1 ELSE IF r2.err # "" THEN r2 ELSE Add(r1.val, r2.val)
\* tensordot(A, y, axes) of an outcome y
TensordotOutcome(A, r, axes) ==
    IF r.err # "" THEN r ELSE TensordotInt(A, r.val, axes)

\* res = tensordot(b, a + c, axes=1), res2 = tensordot(b, a, 1) + tensordot(b, c, 1)
DoBilinear ==
    /\ IsUnary(op)
    /\ \E x \in FullOperands(a.chinfo, <<LegP, LegConj(a.legs[1])>>) :
          \E z \in OperandsOf(a.chinfo, a.legs, a.qtotal) :
             \E sum \in {Add(a, z)} : \E after \in {OtherAfter(a, z)} :
                \E t \in {{<<k, TensordotOutcome(x, <<sum, Ok(a), Ok(after)>>[k], 1)>> : k \in 1..3}} :
                   \E t1 \in {p \in t : p[1] = 1}, t2 \in {p \in t : p[1] = 2},
                      t3 \in {p \in t : p[1] = 3} :
                      /\ res' = t1[2]
                      /\ res2' = AddOutcomes(t2[2], t3[2])
                      /\ b' = x
                      /\ c' = after
    /\ arg' = 1
    /\ op' = "bilinear"
    /\ steps' = steps + 1
    /\ UNCHANGED a

NextAdd ==
    \/ BinPurgeZeros
    \/ BinSortLegcharge
    \/ DoBinaryBlockwise
    \/ DoBilinear

SpecAdd == InitBin /\ [][NextAdd]_vars


\* cp = A.copy(deep=False); cp[idx] = v.  The copy shares A's list of blocks and
\* A's row table: a block found is written in place, a new block is appended
\* to the shared list while the row table with the new row is bound to cp only.
\* val is cp, orig is A afterwards.
ShallowCopySetItem(A, idx, v) ==
    LET r == SetItem(A, idx, v)
    IN  [err |-> r.err,
         val |-> r.val,
         orig |-> IF r.err # "" THEN A ELSE [A EXCEPT !.data = r.val.data]]

\* ------------------------------- SpecLabels: the labels of tensordot and outer
\* Array.labels as the dict it is: the set of the pairs <<label, axis>>
LabelDict(labels) == {<<labels[k], k - 1>> : k \in {k \in 1..Len(labels) : labels[k] # << >>}}

\* the label loop that ends tensordot and outer, A and B in standard form:
\* res.labels = a.labels.copy(); every label k of b is deleted if it is in
\* res.labels and set to b.labels[k] + a.rank - 2*axes otherwise
ContractionLabels(A, B, axes) ==
    LET la == LabelDict(A.labels)
        lb == LabelDict(B.labels)
    IN  {p \in la : \A q \in lb : q[1] # p[1]} \cup
        {<<q[1], q[2] + Rank(A) - 2 * axes>> : q \in {q \in lb : \A p \in la : p[1] # q[1]}}

\* the dict of labels of tensordot(A, B, (axes_a, axes_b))
TensordotLabels(A, B, axes_a, axes_b) ==
    LET not_a == SortedSeq({x \in 0..(Rank(A) - 1) : \A i \in 1..Len(axes_a) : axes_a[i] # x})
        not_b == SortedSeq({x \in 0..(Rank(B) - 1) : \A i \in 1..Len(axes_b) : axes_b[i] # x})
    IN  ContractionLabels(Transpose(A, not_a \o axes_a), Transpose(B, axes_b \o not_b), Len(axes_a))

LabelPool == {<< >>, <<"x">>, <<"y">>, <<"z">>}
\* the labels set_leg_labels accepts as they are: no label given twice
LabelLists(n) ==
    {l \in [1..n -> LabelPool] : \A i, j \in 1..n : (i < j /\ l[i] # << >>) => l[i] # l[j]}
WithLabels(A) == {[A EXCEPT !.labels = l] : l \in LabelLists(Rank(A))}

InitLabels ==
    /\ a \in UNION {WithLabels(x) : x \in UNION {FullOperands(m, <<LegP, LegP>>) : m \in Mods}}
    /\ b \in UNION {WithLabels(x) : x \in {y \in FullOperands(a.chinfo, <<LegM, LegM>>) : y.qtotal = 0}}
    /\ c = NoArray
    /\ res = NoRes
    /\ res2 = NoRes
    /\ op = "from_ndarray"
    /\ arg = << >>
    /\ steps = 0

\* res = tensordot(a, b, axes=([ia], [ib])); arg.labels is res.labels
DoTensordotLabels ==
    /\ op = "from_ndarray"
    /\ \E ia \in 0..1, ib \in 0..1 :
          /\ res' = Tensordot(a, b, <<ia>>, <<ib>>)
          /\ arg' = [axes_a |-> <<ia>>, axes_b |-> <<ib>>,
                     labels |-> TensordotLabels(a, b, <<ia>>, <<ib>>)]
    /\ op' = "tensordot"
    /\ steps' = steps + 1
    /\ UNCHANGED <<a, b, c, res2>>

\* res = outer(a, b); arg.labels is res.labels
DoOuterLabels ==
    /\ op = "from_ndarray"
    /\ res' = Outer(a, b)
    /\ arg' = [axes_a |-> << >>, axes_b |-> << >>, labels |-> ContractionLabels(a, b, 0)]
    /\ op' = "outer"
    /\ steps' = steps + 1
    /\ UNCHANGED <<a, b, c, res2>>

\* the lists of distinct axes of an Array of rank 2
AxisChoices == {<< >>, <<0>>, <<1>>, <<0, 1>>, <<1, 0>>}

\* res = tensordot(a, b, axes=(axes_a, axes_b)) with lists of different length;
\* the number a full contraction returns is res.val.scalar
DoTensordotMismatch ==
    /\ op = "from_ndarray"
    /\ \E axes_a \in AxisChoices, axes_b \in AxisChoices :
          /\ Len(axes_a) # Len(axes_b)
          /\ \E r \in {Tensordot(a, b, axes_a, axes_b)} :
                res' = IF Len(axes_a) = Rank(a) /\ Len(axes_a) = Rank(b)
                       THEN [err |-> r.err, val |-> [scalar |-> r.val]]
                       ELSE r
          /\ arg' = [axes_a |-> axes_a, axes_b |-> axes_b]
    /\ op' = "tensordot_mismatch"
    /\ steps' = steps + 1
    /\ UNCHANGED <<a, b, c, res2>>

\* Array.get_leg_index(label): label.name is a label, or << >> and the axis
\* label.ax is given; res = self.labels.get(label, label), and a name that is
\* no label is compared as a string with the rank, which python 2 finds larger
GetLegIndex(A, label) ==
    LET known == {k \in 1..Rank(A) : A.labels[k] = label.name}
        r == IF label.name = << >> THEN label.ax ELSE Max(known) - 1
    IN  IF label.name # << >> /\ known = {} THEN [err |-> "ValueError", val |-> 0]
        ELSE IF r > Rank(A) THEN [err |-> "ValueError", val |-> r]
        ELSE IF r < 0 THEN [err |-> "", val |-> r + Rank(A)]
        ELSE [err |-> "", val |-> r]

\* the labels of A, and the integers from -rank - 1 to rank + 1
LegRefs(A) ==
    {[name |-> A.labels[k], ax |-> 0] : k \in {k \in 1..Rank(A) : A.labels[k] # << >>}} \cup
    {[name |-> << >>, ax |-> x] : x \in (0 - Rank(A) - 1)..(Rank(A) + 1)}

\* arg.index = a.get_leg_index(arg.label)
DoGetLegIndex ==
    /\ op = "from_ndarray"
    /\ \E x \in LegRefs(a) : \E r \in {GetLegIndex(a, x)} :
          /\ res' = [err |-> r.err, val |-> NoArray]
          /\ arg' = [label |-> x, index |-> r.val]
    /\ op' = "get_leg_index"
    /\ steps' = steps + 1
    /\ UNCHANGED <<a, b, c, res2>>

NextLabels ==
    \/ DoTensordotLabels
    \/ DoOuterLabels
    \/ DoTensordotMismatch
    \/ DoGetLegIndex

SpecLabels == InitLabels /\ [][NextLabels]_vars

\* ------------------------------------------- SpecIndex: Array._pre_indexing
\* an entry of an index: an integer, Ellipsis, or the full slice
IndexEntries == {"0", "1", "...", ":"}
MaxRank == 4

\* _pre_indexing(inds) of an Array of this rank; bare: inds is the single
\* integer inds[1] and not a tuple, and tuple(inds) raises
PreIndexing(rank, inds, bare) ==
    LET i1 == IF Len(inds) < rank THEN Append(inds, "...") ELSE inds
        e == Min({k \in 1..Len(i1) : i1[k] = "..."})
        nfill == Max({0, rank - Len(i1) + 1})
        i2 == IF \E k \in 1..Len(i1) : i1[k] = "..."
              THEN SubSeq(i1, 1, e - 1) \o [k \in 1..nfill |-> ":"] \o SubSeq(i1, e + 1, Len(i1))
              ELSE i1
    IN  IF bare THEN [err |-> "TypeError", val |-> inds, int_only |-> FALSE]
        ELSE IF Len(i2) > rank THEN [err |-> "IndexError", val |-> inds, int_only |-> FALSE]
        ELSE [err |-> "", val |-> i2,
              int_only |-> \A k \in 1..Len(i2) : i2[k] \in {"0", "1"}]

InitIndex ==
    /\ a = NoArray
    /\ b = NoArray
    /\ c = NoArray
    /\ res = NoRes
    /\ res2 = NoRes
    /\ op = "index"
    /\ \E rank \in 1..MaxRank :
          \/ \E len \in 1..(rank + 1) : \E inds \in [1..len -> IndexEntries] :
                arg = [rank |-> rank, inds |-> inds, bare |-> FALSE]
          \/ \E i \in {"0", "1"} : arg = [rank |-> rank, inds |-> <<i>>, bare |-> TRUE]
    /\ steps = 0

\* int_only, out = self._pre_indexing(inds)
DoPreIndexing ==
    /\ op = "index"
    /\ \E r \in {PreIndexing(arg.rank, arg.inds, arg.bare)} :
          /\ res' = [err |-> r.err, val |-> NoArray]
          /\ arg' = [rank |-> arg.rank, inds |-> arg.inds, bare |-> arg.bare,
                     out |-> r.val, int_only |-> r.int_only]
    /\ op' = "_pre_indexing"
    /\ steps' = steps + 1
    /\ UNCHANGED <<a, b, c, res2>>

NextIndex == DoPreIndexing

SpecIndex == InitIndex /\ [][NextIndex]_vars

\* ------------------------------------------- SpecItem: writes of one entry
\* the values written
Values == {0, 9}

ItemConj == op = "from_ndarray" /\ DoConj

\* a[idx] = v; b is a as it was before the write
DoWrite ==
    /\ op \in {"from_ndarray", "conj", "ipurge_zeros"}
    /\ \E idx \in DenseIndices(a.legs), v \in Values :
          \E r \in {SetItem(a, idx, v)} :
             /\ a' = r.val
             /\ res' = [err |-> r.err, val |-> NoArray]
             /\ arg' = [idx |-> idx, v |-> v]
    /\ b' = a
    /\ op' = "write"
    /\ steps' = steps + 1
    /\ UNCHANGED <<c, res2>>

\* cp = a.copy(deep=False); cp[idx] = v; b is a as it was before, res.val is cp
DoWriteCopy ==
    /\ op \in {"from_ndarray", "conj", "ipurge_zeros"}
    /\ \E idx \in DenseIndices(a.legs), v \in Values :
          \E r \in {ShallowCopySetItem(a, idx, v)} :
             /\ a' = r.orig
             /\ res' = [err |-> r.err, val |-> r.val]
             /\ arg' = [idx |-> idx, v |-> v]
    /\ b' = a
    /\ op' = "write_copy"
    /\ steps' = steps + 1
    /\ UNCHANGED <<c, res2>>

\* res = b.binary_blockwise(np.add, a) with a the Array just written and b the
\* Array as it was before the write; res2.val is a as it was passed, c (and a)
\* is a after the call
DoAddWritten ==
    /\ op = "write"
    /\ res.err = ""
    /\ \E after \in {OtherAfter(b, a)} : \E r \in {BinaryBlockwise("add", b, a)} :
          /\ res' = r
          /\ res2' = Ok(a)
          /\ c' = after
          /\ a' = after
    /\ op' = "add_written"
    /\ steps' = steps + 1
    /\ UNCHANGED <<b, arg>>

NextItem ==
    \/ ItemConj
    \/ BinPurgeZeros
    \/ DoWrite
    \/ DoWriteCopy
    \/ DoAddWritten

SpecItem == Init /\ [][NextItem]_vars

\* ---------------------------------------------- SpecSlice: self[inds] = other
\* map_part2self of _advanced_getitem_map_qind for inds with integers at axes
\* and full slices elsewhere: the row of self for a row of self[inds], and
\* whether the offset t of that block lies in the region
ExtendRow(A, axes, pos, prow) ==
    LET keep == SortedSeq({x \in 0..(Rank(A) - 1) : \A i \in 1..Len(axes) : axes[i] # x})
    IN  [j \in 1..Rank(A) |->
            IF \E i \in 1..Len(axes) : axes[i] + 1 = j
            THEN pos[CHOOSE i \in 1..Len(axes) : axes[i] + 1 = j][1]
            ELSE prow[CHOOSE i \in 1..Len(keep) : keep[i] + 1 = j]]
InBlockMask(axes, pos, t) == \A i \in 1..Len(axes) : t[axes[i] + 1] = pos[i][2]
PartOffset(A, axes, t) ==
    LET keep == SortedSeq({x \in 0..(Rank(A) - 1) : \A i \in 1..Len(axes) : axes[i] # x})
    IN  [i \in 1..Len(keep) |-> t[keep[i] + 1]]

\* _get_block(qindices) is None for a row whose charge is not qtotal or that
\* is not stored
HasBlock(A, row) ==
    /\ GetBlockCharge(A.chinfo, A.legs, row) = A.qtotal
    /\ \E k \in 1..Len(A.qdata) : A.qdata[k] = row

\* the first loop of _advanced_setitem_npc: block[block_mask] = 0. for every
\* row of self_part; on None the assignment raises TypeError
RECURSIVE ZeroRegion(_, _, _, _, _)
ZeroRegion(A, axes, pos, part, i) ==
    IF i > Len(part.qdata) THEN Ok(A)
    ELSE LET row == ExtendRow(A, axes, pos, part.qdata[i])
             k == Min({j \in 1..Len(A.qdata) : A.qdata[j] = row})
         IN  IF ~HasBlock(A, row) THEN Raise("TypeError", A)
             ELSE ZeroRegion([A EXCEPT !.data[k] =
                                 [t \in DOMAIN @ |-> IF InBlockMask(axes, pos, t) THEN 0 ELSE @[t]]],
                             axes, pos, part, i + 1)

\* the second loop: block = self._get_block(qindices, insert=True);
\* block[block_mask] = o_block for every block of other
RECURSIVE CopyBlocks(_, _, _, _, _)
CopyBlocks(A, axes, pos, other, i) ==
    IF i > Len(other.qdata) THEN Ok(A)
    ELSE LET row == ExtendRow(A, axes, pos, other.qdata[i])
             match == {j \in 1..Len(A.qdata) : A.qdata[j] = row}
             A1 == IF match = {}
                   THEN [A EXCEPT !.data = Append(A.data, ZeroBlock(A.legs, row)),
                                  !.qdata = Append(A.qdata, row),
                                  !.sorted = FALSE]
                   ELSE A
             k == IF match = {} THEN Len(A.data) + 1 ELSE Min(match)
         IN  IF GetBlockCharge(A.chinfo, A.legs, row) # A.qtotal THEN Raise("TypeError", A)
             ELSE CopyBlocks([A1 EXCEPT !.data[k] =
                                 [t \in DOMAIN @ |->
                                     IF InBlockMask(axes, pos, t)
                                     THEN other.data[i][PartOffset(A, axes, t)] ELSE @[t]]],
                             axes, pos, other, i + 1)

\* self[inds] = other for the Array other, inds holding indices at axes and
\* full slices elsewhere; val is self afterwards
AdvancedSetItemNpc(A, indices, axes, other) ==
    LET part == TakeSlice(A, indices, axes)
        pos == [i \in 1..Len(axes) |-> GetQindex(A.legs[axes[i] + 1], indices[i])]
        zeroed == ZeroRegion(A, axes, pos, part, 1)
        copied == CopyBlocks(zeroed.val, axes, pos, other, 1)
    IN  IF Rank(part) # Rank(other) THEN Raise("IndexError", A)
        ELSE IF \E k \in 1..Rank(part) : ~Contractible(part.legs[k], LegConj(other.legs[k]))
        THEN Raise("ValueError", A)
        ELSE IF part.qtotal # other.qtotal THEN Raise("ValueError", A)
        ELSE IF zeroed.err # "" THEN zeroed
        ELSE IF copied.err # "" THEN copied
        ELSE Ok(IPurgeZeros(copied.val))

\* a[.., i, ..] = x with the index i at one axis; b is a as it was before, c is x
DoSliceWrite ==
    /\ op \in {"from_ndarray", "conj", "ipurge_zeros"}
    /\ Rank(a) >= 2
    /\ \E ax \in 0..(Rank(a) - 1) : \E i \in 0..(IndLen(a.legs[ax + 1]) - 1) :
          \E part \in {TakeSlice(a, <<i>>, <<ax>>)} :
             \E x \in OperandsOf(a.chinfo, part.legs, part.qtotal) :
                \E r \in {AdvancedSetItemNpc(a, <<i>>, <<ax>>, x)} :
                   /\ a' = r.val
                   /\ res' = [err |-> r.err, val |-> NoArray]
                   /\ c' = x
                   /\ arg' = [indices |-> <<i>>, axes |-> <<ax>>]
    /\ b' = a
    /\ op' = "slice_write"
    /\ steps' = steps + 1
    /\ UNCHANGED res2

NextSlice ==
    \/ ItemConj
    \/ BinPurgeZeros
    \/ DoSliceWrite

SpecSlice == Init /\ [][NextSlice]_vars


\* ------------------------------------------------------ SpecPermute: permute
\* LegCharge.to_qflat: the charge of every flat index
ToQflat(l) == [i \in 1..IndLen(l) |-> l.ch[GetQindex(l, i - 1)[1] + 1]]
\* LegCharge.from_qflat(...).bunch()[1]: one sector for every run of equal
\* charges
FromQflat(qconj, qflat) == BunchLeg(PlainLeg(qconj, qflat, [i \in 1..Len(qflat) |-> 1]))
\* reverse_sort_perm: the inverse permutation
ReverseSortPerm(perm) ==
    [i \in 1..Len(perm) |-> (CHOOSE j \in 1..Len(perm) : perm[j] = i - 1) - 1]

\* the loops of permute, as the blocks they leave behind.  A piece is a stored
\* block k of A with a flat index i_old of its sector on the axis; it goes to
\* the row with the sector of i_new = rev_perm[i_old] of the new leg.  The new
\* blocks are appended in the order in which the loops first meet their row:
\* by old sector, then block, then i_old.
PermuteWith(A, perm, axis, rev_perm) ==
    LET ax == axis + 1
        oldleg == A.legs[ax]
        newleg == FromQflat(oldleg.qconj, [i \in 1..Len(perm) |-> ToQflat(oldleg)[perm[i] + 1]])
        newlegs == [A.legs EXCEPT ![ax] = newleg]
        pieces == {p \in (1..Len(A.data)) \X (0..(IndLen(oldleg) - 1)) :
                      GetQindex(oldleg, p[2])[1] = A.qdata[p[1]][ax]}
        pos(p) == GetQindex(newleg, rev_perm[p[2] + 1])
        row(p) == [A.qdata[p[1]] EXCEPT ![ax] = pos(p)[1]]
        before(p, q) == \/ A.qdata[p[1]][ax] < A.qdata[q[1]][ax]
                        \/ A.qdata[p[1]][ax] = A.qdata[q[1]][ax] /\ p[1] < q[1]
                        \/ p[1] = q[1] /\ p[2] < q[2]
        first == {p \in pieces : \A q \in pieces : row(q) = row(p) => (q = p \/ before(p, q))}
        n == Cardinality(first)
        fs == [i \in 1..n |-> CHOOSE p \in first : Cardinality({q \in first : before(q, p)}) = i - 1]
        block(r) ==
            [t \in BlockIndices(newlegs, r) |->
                LET src == {p \in pieces : row(p) = r /\ pos(p)[2] = t[ax]}
                    last == CHOOSE p \in src : \A q \in src : q = p \/ before(q, p)
                IN  IF src = {} THEN 0
                    ELSE A.data[last[1]][[t EXCEPT ![ax] = last[2] - SliceBeg(oldleg, A.qdata[last[1]][ax])]]]
    IN  IF Len(perm) # IndLen(oldleg) THEN Raise("ValueError", A)
        ELSE Ok([A EXCEPT !.legs = newlegs,
                          !.qdata = [i \in 1..n |-> row(fs[i])],
                          !.data = [i \in 1..n |-> block(row(fs[i]))],
                          !.sorted = FALSE])

\* permute with perm itself where the inverse belongs: i_new = perm[i_old]
PermuteForward(A, perm, axis) == PermuteWith(A, perm, axis, perm)

\* Array.permute(perm, axis)
Permute(A, perm, axis) == PermuteWith(A, perm, axis, ReverseSortPerm(perm))

FlatPermutations(n) == {p \in [1..n -> 0..(n - 1)] : IsPermutation(p, n)}

\* res = a.permute(perm, axis)
DoPermute ==
    /\ IsUnary(op)
    /\ \E axis \in 0..(Rank(a) - 1) : \E perm \in FlatPermutations(IndLen(a.legs[axis + 1])) :
          /\ res' = Permute(a, perm, axis)
          /\ arg' = [perm |-> perm, axis |-> axis]
    /\ op' = "permute"
    /\ steps' = steps + 1
    /\ UNCHANGED <<a, b, c, res2>>

\* LegCharge.perm_flat_from_perm_qind: the sectors p_qind[0], p_qind[1], ...
\* of the leg one after the other, as a permutation of the flat indices
PermFlatFromPermQind(l, p_qind) ==
    Concat([j \in 1..Len(p_qind) |->
               [i \in 1..l.sz[p_qind[j] + 1] |-> SliceBeg(l, p_qind[j]) + i - 1]])

\* the permutations of whole sectors that give perm; none: perm mixes qindices
\* and perm_qind_from_perm_flat raises ValueError
PermQindFromPermFlat(l, perm) ==
    {p \in FlatPermutations(BlockNumber(l)) : PermFlatFromPermQind(l, p) = perm}

\* sort_legcharge(sort, bunch=False) with sort[li] = perm and False elsewhere.
\* A perm that mixes qindices goes to cp.permute(sort[li], axes=[li]), and
\* permute has no parameter `axes`; otherwise _perm_qind renumbers column li
\* of the rows and the leg stays as it is.
SortLegchargePerm(A, li, perm) ==
    LET found == PermQindFromPermFlat(A.legs[li + 1], perm)
        p_qind_r == ReverseSortPerm(CHOOSE p \in found : TRUE)
    IN  IF found = {} THEN Raise("TypeError", A)
        ELSE Ok([A EXCEPT !.qdata = [k \in 1..Len(A.qdata) |->
                                        [A.qdata[k] EXCEPT ![li + 1] = p_qind_r[A.qdata[k][li + 1] + 1]]],
                          !.sorted = FALSE])

\* perm, res = a.sort_legcharge(sort=[.., perm, ..], bunch=False)
DoSortByPerm ==
    /\ IsUnary(op)
    /\ \E li \in 0..(Rank(a) - 1) : \E perm \in FlatPermutations(IndLen(a.legs[li + 1])) :
          /\ res' = SortLegchargePerm(a, li, perm)
          /\ arg' = [perm |-> perm, axis |-> li]
    /\ op' = "sort_by_perm"
    /\ steps' = steps + 1
    /\ UNCHANGED <<a, b, c, res2>>

\* perm, res = a.sort_legcharge(sort=False, bunch=flags)
DoBunchFlags ==
    /\ IsUnary(op)
    /\ \E flags \in [1..Rank(a) -> BOOLEAN] :
          /\ res' = Ok(SortLegcharge(a, flags))
          /\ arg' = [flags |-> flags]
    /\ op' = "bunch_flags"
    /\ steps' = steps + 1
    /\ UNCHANGED <<a, b, c, res2>>

NextPermute ==
    \/ BinPurgeZeros
    \/ DoPermute
    \/ DoSortByPerm
    \/ DoBunchFlags

SpecPermute == Init /\ [][NextPermute]_vars

\* --------------------------------------------- SpecDtype: dtypes of the blocks
\* arg.typed is the dtype of the Array res (a before an operation) and the
\* dtype of each of its blocks; arg.dtype the dtype astype was asked for
Dtypes == {"float64", "complex128", "int64"}
Typed(dtype, blocks) == [dtype |-> dtype, blocks |-> blocks]

\* astype(dtype): cp.dtype = np.dtype(dtype);
\* cp._data = [d.astype(self.dtype, copy=True) for d in self._data]
Astype(T, dtype) == Typed(dtype, [k \in 1..Len(T.blocks) |-> T.dtype])

\* permute: res is a copy of self, every new block is np.zeros(shape) and
\* the old entries are assigned into it; n the number of new blocks
PermuteDtype(T, n) == Typed(T.dtype, [k \in 1..n |-> "float64"])

\* from_ndarray makes every block an np.array(..., dtype=res.dtype)
InitDtype ==
    /\ a \in InitArrays
    /\ b = NoArray
    /\ c = NoArray
    /\ res = NoRes
    /\ res2 = NoRes
    /\ op = "from_ndarray"
    /\ \E d \in Dtypes :
          arg = [typed |-> Typed(d, [k \in 1..Len(a.data) |-> d]), dtype |-> d]
    /\ steps = 0

\* res = a.astype(dtype)
DoAstype ==
    /\ op = "from_ndarray"
    /\ \E dtype \in Dtypes :
          arg' = [typed |-> Astype(arg.typed, dtype), dtype |-> dtype]
    /\ res' = Ok(a)
    /\ op' = "astype"
    /\ steps' = steps + 1
    /\ UNCHANGED <<a, b, c, res2>>

\* res = a.permute(perm, axis)
DoPermuteDtype ==
    /\ op = "from_ndarray"
    /\ \E axis \in 0..(Rank(a) - 1) : \E perm \in FlatPermutations(IndLen(a.legs[axis + 1])) :
          \E r \in {Permute(a, perm, axis)} :
             /\ res' = r
             /\ arg' = [arg EXCEPT !.typed = PermuteDtype(arg.typed, Len(r.val.data))]
    /\ op' = "permute"
    /\ steps' = steps + 1
    /\ UNCHANGED <<a, b, c, res2>>

NextDtype ==
    \/ DoAstype
    \/ DoPermuteDtype

SpecDtype == InitDtype /\ [][NextDtype]_vars

\* ------------------------------------------------- SpecConj: T.conj().conj()
\* a = a.combine_legs([group], qconj=q): Arrays with a pipe and its label
DoConjCombine ==
    /\ op = "from_ndarray"
    /\ \E group \in {<<0>>, <<0, 1>>, <<1, 2>>}, q \in {1, -1} :
          \E r \in {CombineLegs(a, <<group>>, <<q>>)} :
             /\ r.err = ""
             /\ a' = r.val
             /\ arg' = [groups |-> <<group>>, qconj |-> <<q>>]
    /\ op' = "combine_legs"
    /\ steps' = steps + 1
    /\ UNCHANGED <<b, c, res, res2>>

\* res = a.conj().conj(), c = a.conj()
DoConjConj ==
    /\ op \in {"from_ndarray", "combine_legs"}
    /\ \E once \in {Conj(a)} :
          /\ c' = once
          /\ res' = Ok(Conj(once))
    /\ op' = "conj_conj"
    /\ steps' = steps + 1
    /\ UNCHANGED <<a, b, arg, res2>>

NextConj ==
    \/ DoConjCombine
    \/ DoConjConj

SpecConj == InitReshape /\ [][NextConj]_vars

\* ----------------------------------------------------------- the properties
ChargeInvariant(A) ==
    \A k \in 1..Len(A.qdata) : GetBlockCharge(A.chinfo, A.legs, A.qdata[k]) = A.qtotal

\* C1: every stored block row of every Array a sequence of operations produces
\* has the charge make_valid(sum over the axes of the sector charges) == qtotal.
C1_ChargeInvariant == ChargeInvariant(a)

\* C2: whenever _qdata_sorted is True the rows of _qdata are strictly ascending
\* in np.lexsort order (last axis most significant).
C2_SortedFlagTruthful == a.sorted => StrictlyAscending(a.qdata)

\* C3: qtotal is always a canonical charge vector, qtotal == make_valid(qtotal),
\* in particular after conj() of an Array with nonzero qtotal under a cyclic charge.
C3_QtotalCanonical == a.qtotal = MakeValid(a.chinfo, a.qtotal)

\* C4: to_ndarray(tensordot(a, b, (axes_a, axes_b))) is the dense contraction of
\* to_ndarray(a) and to_ndarray(b) over the paired axes, the axes of the result
\* being a's non-contracted axes followed by b's.
C4_TensordotIsDenseContraction ==
    op = "tensordot" =>
        /\ res.err = ""
        /\ ToNdarray(res.val) =
              DenseTensordot(ToNdarray(b), Shape(b), ToNdarray(c), Shape(c), arg.axes_a, arg.axes_b)

\* the stored sector rows of A, and the block A holds for a row (zeros if none)
StoredRows(A) == {A.qdata[k] : k \in 1..Len(A.qdata)}
BlockOf(A, row) ==
    IF row \in StoredRows(A)
    THEN A.data[CHOOSE k \in 1..Len(A.qdata) : A.qdata[k] = row]
    ELSE ZeroBlock(A.legs, row)
RowBlocks(A) == {<<A.qdata[k], A.data[k]>> : k \in 1..Min({Len(A.qdata), Len(A.data)})}

\* C5: binary_blockwise(f, A, B) completes without error for every pair of
\* block tables and stores, for exactly the rows present in A or in B, the
\* block f(A_row, B_row), a missing operand block taken as zeros.
C5_BinaryBlockwiseUnion ==
    op = "binary_blockwise" =>
        /\ res.err = ""
        /\ StoredRows(res.val) = StoredRows(b) \cup StoredRows(c)
        /\ \A row \in StoredRows(res.val) :
              BlockOf(res.val, row) = Blockwise(arg, BlockOf(b, row), BlockOf(c, row))

\* C6: tensordot(a, b + c, axes) and tensordot(a, b, axes) + tensordot(a, c, axes)
\* both evaluate without error and have equal dense content.
C6_TensordotBilinear ==
    op = "bilinear" =>
        /\ res.err = ""
        /\ res2.err = ""
        /\ ToNdarray(res.val) = ToNdarray(res2.val)

\* the element-wise dot product of two dense arrays of one shape
DenseInner(da, db) == SumOver([idx \in DOMAIN da |-> da[idx] * db[idx]], DOMAIN da)

\* C7: inner(a, b) is the sum over all multi-indices of
\* to_ndarray(a)[idx] * to_ndarray(b)[idx], whether or not the block tables
\* are sorted.
C7_InnerIsDenseDot ==
    op = "inner" => res.err = "" /\ res.val.scalar = DenseInner(ToNdarray(b), ToNdarray(c))

\* C8: from_ndarray(T.to_ndarray(), T.chinfo, T.legs, T.dtype, T.qtotal) has the
\* stored sector rows of T with the block payloads of T.
C8_DenseRoundTrip ==
    op = "round_trip" => res.err = "" /\ RowBlocks(res.val) = RowBlocks(a)

\* what combine_legs(groups) is to return for T: one pipe per group at its
\* default new axis, fusing the legs of the group in the order given, the other
\* legs in between in their old order, and the labels built from T's
FusedAsRequested(T, groups, R) ==
    LET n == Rank(T)
        non == NonCombined(n, groups)
        na == DefaultNewAxes(n, groups)
        m == Len(groups) + Len(non)
        nonnew == SortedSeq({x \in 0..(m - 1) : \A g \in 1..Len(groups) : na[g] # x})
        lab(x) == IF T.labels[x + 1] = << >> THEN Placeholder(x) ELSE T.labels[x + 1]
    IN  /\ Rank(R) = m
        /\ \A g \in 1..Len(groups) :
              /\ R.legs[na[g] + 1].sub = [k \in 1..Len(groups[g]) |-> T.legs[groups[g][k] + 1]]
              /\ R.labels[na[g] + 1] = PipeLabel([k \in 1..Len(groups[g]) |-> lab(groups[g][k])])
        /\ \A i \in 1..Len(non) : R.legs[nonnew[i] + 1] = T.legs[non[i] + 1]

\* C9: split_legs(combine_legs(T, groups), the axes of the created pipes)
\* succeeds and has the legs and the dense content of T, transposed as
\* combine_legs transposed it.
C9_CombineSplitRoundTrip ==
    (op = "split_legs" /\ arg.axes.some) =>
        LET T == Transpose(a, CombineTransp(Rank(a), arg.groups, DefaultNewAxes(Rank(a), arg.groups)))
        IN  /\ res2.err = ""
            /\ res2.val.legs = T.legs
            /\ ToNdarray(res2.val) = ToNdarray(T)

\* C10: combine_legs returns, for every list of disjoint groups, also when a
\* transposition is needed, one pipe per group fusing exactly its legs, with
\* the labels of the docstring: a,b,c,d,e and [[0,3],[4,1]] give (a.d), c, (e.b).
C10_CombineLegsFusesGroups ==
    op = "combine_legs" => res.err = "" /\ FusedAsRequested(a, arg.groups, res.val)


\* C11: split_legs(axes) raises if and only if some axis of axes is not a
\* LegPipe or some axis is given more than once; for every list of distinct
\* pipe axes it returns the Array with those pipes split.
C11_SplitLegsValidation ==
    op = "split_axes" =>
        LET invalid == \/ \E i \in 1..Len(arg.axes) : ~IsPipe(res.val.legs[arg.axes[i] + 1])
                       \/ HasDuplicates(arg.axes)
        IN  /\ (res2.err # "") <=> invalid
            /\ ~invalid => res2.val.legs = SplitLegsWorker(res.val, arg.axes).legs

\* C12: T[idx] = v for a full integer index stores v when the sector row of idx
\* has the charge qtotal, a zero block being inserted for an absent row: then
\* T[idx] == v and every other dense entry is as before; when the charge of the
\* row differs it raises and leaves the rows, the blocks and the sorted flag.
C12_SingleEntryWrite ==
    op = "write" =>
        IF GetBlockCharge(b.chinfo, b.legs, RowOf(b.legs, arg.idx)) = b.qtotal
        THEN /\ res.err = ""
             /\ GetItem(a, arg.idx) = arg.v
             /\ \A j \in DenseIndices(b.legs) \ {arg.idx} : ToNdarray(a)[j] = ToNdarray(b)[j]
        ELSE /\ res.err # ""
             /\ a = b

\* a write that had to insert the block of its row
C12_WriteInsertsBlock ==
    /\ op = "write"
    /\ res.err = ""
    /\ arg.v = 9
    /\ \A k \in 1..Len(b.qdata) : b.qdata[k] # RowOf(b.legs, arg.idx)
    /\ Len(a.qdata) = Len(b.qdata) + 1

\* C13: for cp = a.copy(deep=False), cp[idx] = v changes a if and only if the
\* block of idx was stored in a: then a reads v at idx as well; when the block
\* was absent a is left as it was, its list of blocks and its row table of the
\* same length.
C13_ShallowCopyAliasing ==
    (op = "write_copy" /\ res.err = "") =>
        IF \E k \in 1..Len(b.qdata) : b.qdata[k] = RowOf(b.legs, arg.idx)
        THEN GetItem(a, arg.idx) = arg.v
        ELSE /\ a = b
             /\ Len(a.data) = Len(a.qdata)

\* C14: a value-returning operation does not modify its inputs: after
\* binary_blockwise(f, self, other), whether it returns or raises, other has the
\* legs, labels, qtotal, rows in their order, blocks and sorted flag it was
\* passed with.
C14_InputsUnmodified ==
    op = "add_written" => c = res2.val

\* the labels of the legs of A that are not in axes, each with the place of its
\* leg among the legs kept, counted from first
KeptLabels(A, axes, first) ==
    LET kept == SortedSeq({x \in 0..(Rank(A) - 1) : \A i \in 1..Len(axes) : axes[i] # x})
    IN  {<<A.labels[kept[k] + 1], first + k - 1>> :
            k \in {k \in 1..Len(kept) : A.labels[kept[k] + 1] # << >>}}

\* C15: the labels of tensordot(a, b, axes) and of outer(a, b) map names
\* injectively to axes of the result; they are the labels of the legs of a
\* and b that are not contracted, at the places of these legs in the result,
\* without the names found in both; no label of a contracted leg survives.
C15_ContractionLabels ==
    (op \in {"tensordot", "outer"} /\ res.err = "") =>
        LET ka == KeptLabels(a, arg.axes_a, 0)
            kb == KeptLabels(b, arg.axes_b, Rank(a) - Len(arg.axes_a))
        IN  /\ \A p, q \in arg.labels : (p[1] = q[1] \/ p[2] = q[2]) => p = q
            /\ \A p \in arg.labels : p[2] \in 0..(Rank(res.val) - 1)
            /\ arg.labels = {p \in ka : \A q \in kb : q[1] # p[1]} \cup
                             {q \in kb : \A p \in ka : p[1] # q[1]}

\* C16: for contiguous groups, which need no transposition, split_legs of all
\* the pipes of combine_legs(T, groups) returns an Array with the labels of T,
\* None for the legs without label, also when two pipes are split in one call.
C16_LabelRoundTrip ==
    (/\ op = "split_legs"
     /\ ~arg.axes.some
     /\ CombineTransp(Rank(a), arg.groups, DefaultNewAxes(Rank(a), arg.groups)) = Identity(Rank(a)))
        => /\ res2.err = ""
           /\ res2.val.labels = a.labels

\* C17: for an index tuple with exactly one Ellipsis and k <= rank other
\* entries, _pre_indexing returns a tuple of length rank in which the Ellipsis
\* is replaced by rank - k full slices and no Ellipsis is left; and self[i]
\* for a single integer i is indexed as self[i, ...].
C17_EllipsisExpansion ==
    op = "_pre_indexing" =>
        LET inds == arg.inds
            at == {k \in 1..Len(inds) : inds[k] = "..."}
            e == Min(at)
            k == Len(inds) - 1
        IN  /\ (~arg.bare /\ Cardinality(at) = 1 /\ k <= arg.rank) =>
                  /\ res.err = ""
                  /\ arg.out = SubSeq(inds, 1, e - 1) \o [j \in 1..(arg.rank - k) |-> ":"]
                                  \o SubSeq(inds, e + 1, Len(inds))
            /\ arg.bare =>
                  /\ res.err = ""
                  /\ arg.out = PreIndexing(arg.rank, inds \o <<"...">>, FALSE).val

\* C18: after self[inds] = other, other with the legs and the qtotal of
\* self[inds], the dense content of self in the region of inds is the dense
\* content of other, every dense entry outside is as before, and no stored
\* block of self is identically zero.
C18_SlicedAssignment ==
    op = "slice_write" =>
        LET inside(idx) == \A i \in 1..Len(arg.axes) : idx[arg.axes[i] + 1] = arg.indices[i]
        IN  /\ res.err = ""
            /\ \A idx \in DenseIndices(b.legs) :
                  ToNdarray(a)[idx] = IF inside(idx) THEN ToNdarray(c)[PartOffset(b, arg.axes, idx)]
                                      ELSE ToNdarray(b)[idx]
            /\ \A k \in 1..Len(a.data) : ~IsZeroBlock(a.data[k])

\* C19: tensordot(a, b, axes=(axes_a, axes_b)) with len(axes_a) # len(axes_b)
\* raises ValueError and returns nothing.
C19_TensordotRejectsMismatch ==
    op = "tensordot_mismatch" => res.err = "ValueError"

\* C20: get_leg_index(x) of an Array of rank r returns an index in 0..r-1 for
\* every label of the Array and every integer x with -r <= x < r, and raises
\* for every other integer, x = r and x < -r among them.
C20_AxisRangeChecked ==
    op = "get_leg_index" =>
        IF arg.label.name # << >> \/ arg.label.ax \in (0 - Rank(a))..(Rank(a) - 1)
        THEN res.err = "" /\ arg.index \in 0..(Rank(a) - 1)
        ELSE res.err # ""

\* C21: T.conj().conj() has the qtotal, the legs (signs and sector charges),
\* the labels and, for a real dtype, the rows and the blocks of T.
C21_DoubleConjIdentity ==
    op = "conj_conj" =>
        /\ res.err = ""
        /\ res.val.qtotal = a.qtotal
        /\ res.val.legs = a.legs
        /\ res.val.labels = a.labels
        /\ res.val.qdata = a.qdata
        /\ res.val.data = a.data

\* a double conjugation of an Array with a labelled pipe, a nonzero qtotal
\* and stored blocks, the single conjugate differing in all three
C21_ConjOfLabelledPipe ==
    /\ op = "conj_conj"
    /\ \E k \in 1..Rank(a) : IsPipe(a.legs[k]) /\ a.labels[k] # << >> /\ c.labels[k] # a.labels[k]
    /\ a.qtotal # 0 /\ c.qtotal # a.qtotal
    /\ c.legs # a.legs
    /\ Len(a.data) > 0

C23_SortByPermutation ==
    op = "sort_by_perm" =>
        LET ax == arg.axis + 1
        IN  /\ res.err = ""
            /\ \A k \in 1..Len(res.val.data) :
                  DOMAIN res.val.data[k] = BlockIndices(res.val.legs, res.val.qdata[k])
            /\ \A idx \in DenseIndices(a.legs) :
                  ToNdarray(res.val)[idx] = ToNdarray(a)[[idx EXCEPT ![ax] = arg.perm[idx[ax] + 1]]]

\* C24: sort_legcharge(sort=False, bunch=flags) merges the adjacent sectors
\* of equal charge on the legs li with flags[li] True only: a leg with
\* flags[li] False keeps its sectors, and the dense content is unchanged.
C24_BunchFlagsHonoured ==
    op = "bunch_flags" =>
        /\ \A li \in 1..Rank(a) :
              res.val.legs[li] = IF arg.flags[li] THEN BunchLeg(a.legs[li]) ELSE a.legs[li]
        /\ ToNdarray(res.val) = ToNdarray(a)

\* C25: every stored block of an Array an operation produces has the dtype
\* of the Array: astype(d) returns an Array of dtype d whose blocks all have
\* dtype d, and permute returns blocks of the dtype of the Array.
C25_DtypeInvariant ==
    /\ \A k \in 1..Len(arg.typed.blocks) : arg.typed.blocks[k] = arg.typed.dtype
    /\ op = "astype" => arg.typed.dtype = arg.dtype

\* no two rows of A are equal and A has one block for every row
DistinctRows(A) ==
    /\ Len(A.data) = Len(A.qdata)
    /\ \A j, k \in 1..Len(A.qdata) : A.qdata[j] = A.qdata[k] => j = k

TdAxes == Len(arg.axes_a)
TdA == Force(Transpose(b, SortedSeq({x \in 0..(Rank(b) - 1) :
                                        \A i \in 1..Len(arg.axes_a) : arg.axes_a[i] # x})
                          \o arg.axes_a))
TdB == Force(Transpose(c, arg.axes_b
                          \o SortedSeq({x \in 0..(Rank(c) - 1) :
                                           \A i \in 1..Len(arg.axes_b) : arg.axes_b[i] # x})))
\* a row of A and a row of B with equal contracted sector sub-rows
TdMatch(A, ra, rb) == SubSeq(ra, Rank(A) - TdAxes + 1, Rank(A)) = SubSeq(rb, 1, TdAxes)
TdKeepA(A, ra) == SubSeq(ra, 1, Rank(A) - TdAxes)
TdKeepB(B, rb) == SubSeq(rb, TdAxes + 1, Rank(B))
\* the charge of the kept part of a pair of rows equals the qtotal of the result
TdChargeFits(A, B, ra, rb) ==
    MakeValid(A.chinfo,
              ChargesKeep(A.chinfo, SubSeq(A.legs, 1, Rank(A) - TdAxes), TdKeepA(A, ra))
              + ChargesKeep(A.chinfo, SubSeq(B.legs, TdAxes + 1, Rank(B)), TdKeepB(B, rb)))
        = MakeValid(A.chinfo, A.qtotal + B.qtotal)

\* C27: np.tensordot is called exactly once for each pair (block of a, block
\* of b) whose contracted sector sub-rows are equal, and never for a pair of
\* kept-row groups whose combined kept charge is not the qtotal of the result.
C27_TensordotSparsity ==
    op = "tensordot" =>
        \A A \in {TdA} : \A B \in {TdB} :
        \A G \in {TensordotCalls(A, B, TdAxes)} :
        \A calls \in {Concat([p \in 1..Len(G) |-> G[p].calls])} :
            /\ \A ka \in 1..Len(A.qdata), kb \in 1..Len(B.qdata) :
                  TdMatch(A, A.qdata[ka], B.qdata[kb]) =>
                      Cardinality({i \in 1..Len(calls) :
                                      calls[i] = <<A.qdata[ka], B.qdata[kb]>>}) = 1
            /\ \A i \in 1..Len(calls) :
                  /\ TdMatch(A, calls[i][1], calls[i][2])
                  /\ TdChargeFits(A, B, calls[i][1], calls[i][2])

\* C28: a pair (kept row of a, kept row of b) yields an output block if and only
\* if a block of a and a block of b of these groups have equal contracted sector
\* sub-rows; then exactly one block is stored, at the row concat(kept row of a,
\* kept row of b), the sum of the contractions of the matching blocks; the rows
\* of the result are strictly ascending in lexsort order.
C28_OneBlockPerProductivePair ==
    op = "tensordot" =>
        \A A \in {TdA} : \A B \in {TdB} :
        LET rows == res.val.qdata
            M(row) == {m \in (1..Len(A.qdata)) \X (1..Len(B.qdata)) :
                          /\ TdMatch(A, A.qdata[m[1]], B.qdata[m[2]])
                          /\ row = TdKeepA(A, A.qdata[m[1]]) \o TdKeepB(B, B.qdata[m[2]])}
            term(m) == BlockTensordot(A.data[m[1]], GetBlockShape(A.legs, A.qdata[m[1]]),
                                      B.data[m[2]], GetBlockShape(B.legs, B.qdata[m[2]]), TdAxes)
        IN  /\ res.err = ""
            /\ StrictlyAscending(rows)
            /\ \A ka \in 1..Len(A.qdata), kb \in 1..Len(B.qdata) :
                  TdMatch(A, A.qdata[ka], B.qdata[kb]) =>
                      \E i \in 1..Len(rows) :
                          rows[i] = TdKeepA(A, A.qdata[ka]) \o TdKeepB(B, B.qdata[kb])
            /\ \A i \in 1..Len(rows) :
                  LET terms == [m \in M(rows[i]) |-> term(m)]
                  IN  /\ M(rows[i]) # {}
                      /\ \A t \in DOMAIN res.val.data[i] :
                            res.val.data[i][t] = SumOver([m \in M(rows[i]) |-> terms[m][t]], M(rows[i]))

\* C29: for a and b with the charge invariant and contractible paired legs, a
\* block of a and a block of b with equal contracted sector sub-rows have kept
\* charges with make_valid(Q_row + Q_col) == make_valid(qtotal(a) + qtotal(b)):
\* the charge test skips no pair of groups that has a match, and the result is
\* the one of the worker without the test.
C29_ChargeFilterSound ==
    (op = "tensordot" /\ ChargeInvariant(b) /\ ChargeInvariant(c)) =>
        \A A \in {TdA} : \A B \in {TdB} : \A G \in {TensordotCalls(A, B, TdAxes)} :
            /\ \A ka \in 1..Len(A.qdata), kb \in 1..Len(B.qdata) :
                  TdMatch(A, A.qdata[ka], B.qdata[kb]) =>
                      TdChargeFits(A, B, A.qdata[ka], B.qdata[kb])
            /\ \A p \in 1..Len(G) : \A e \in {G[p]} :
                  e.skipped =>
                      \A i \in 1..Len(e.a_group), j \in 1..Len(e.b_group) :
                          ~TdMatch(A, e.a_group[i], e.b_group[j])
            /\ res = TensordotWorkerFiltered(A, B, TdAxes, FALSE)

\* a tensordot whose charge test skipped a pair of groups and kept another,
\* a kept leg having qconj = -1 and a nonzero charge
C29_FilterSkipsAndKeeps ==
    /\ op = "tensordot"
    /\ ChargeInvariant(b)
    /\ ChargeInvariant(c)
    /\ res.err = ""
    /\ \E A \in {TdA} : \E G \in {TensordotCalls(A, TdB, TdAxes)} :
          /\ \E p \in 1..Len(G) : \E e \in {G[p]} : e.skipped
          /\ \E p \in 1..Len(G) : \E e \in {G[p]} : Len(e.calls) > 0
          /\ \E k \in 1..(Rank(A) - TdAxes) :
                /\ A.legs[k].qconj = -1
                /\ \E i \in 1..Len(A.qdata) : A.legs[k].ch[A.qdata[i][k] + 1] # 0

\* C30: combine_legs ends with at most one level of recursion: when a
\* transposition is needed it transposes and calls itself once, and that call
\* needs no transposition; for every list of disjoint groups, two or more
\* groups of length >= 2 included.
C30_CombineLegsRecursesOnce ==
    (op = "combine_legs" /\ ~HasDuplicates(Concat(arg.groups))) =>
        /\ res.err # "RuntimeError"
        /\ CombineLegsDepth(a, arg.groups, arg.qconj) <= 1

====
